---- MODULE Spec2Model ----
(***************************************************************************)
(* The interactive session of mvn-tui: the bubbletea Model (ui/model.go),  *)
(* its key dispatch (Model.Update), the handlers of ui/handlers.go and the *)
(* background executions they start.  The state is the Model value the     *)
(* event loop holds between two Update calls, plus the executions in       *)
(* flight and the parent descriptor on disk.                               *)
(***************************************************************************)
EXTENDS Integers, Sequences, FiniteSets, TLC

\* ------------------------------------------------------------------ bounds
\* Executions begun in one session (in flight + completed).
MaxHistory == 2
\* Executions in flight at the same time.
MaxInFlight == 2
\* Modules and profiles of a project handed to the command builder.
MaxModules == 3
MaxProfiles == 2
\* Lines a child process writes to its standard output.
MaxLines == 2
MaxIdLen == 3
\* Modules a descriptor declares before the session adds one, and modules
\* the session adds to it.
MaxPomModules == 2
MaxAdds == 2
\* Entries of the history when the history view is opened.
MaxEntries == 3

\* ------------------------------------------------------------ view modes
ViewMain == "ViewMain"
ViewLogs == "ViewLogs"
ViewHistory == "ViewHistory"
ViewProjectCreation == "ViewProjectCreation"
ViewModuleCreation == "ViewModuleCreation"
ViewDependencyManager == "ViewDependencyManager"

ViewMode ==
    {ViewMain, ViewLogs, ViewHistory, ViewProjectCreation, ViewModuleCreation,
     ViewDependencyManager}

\* ------------------------------------------------------------------ tasks
\* A task: its name, its goals and whether strings.Contains(Name, "Run").
Task(name, goals, run) == [Name |-> name, Goals |-> goals, Run |-> run]

\* BuiltInTasks(project): the seven lifecycle tasks, then the run tasks the
\* packaging gives.
BuiltInTasks(pkg) ==
    << Task("Clean", <<"clean">>, FALSE),
       Task("Compile", <<"compile">>, FALSE),
       Task("Test", <<"test">>, FALSE),
       Task("Package", <<"package">>, FALSE),
       Task("Verify", <<"verify">>, FALSE),
       Task("Install", <<"install">>, FALSE),
       Task("Clean Install", <<"clean", "install">>, FALSE) >>
    \o (IF pkg = "jar"
          THEN << Task("Run (Java)", <<"compile", "exec:java">>, TRUE),
                  Task("Run (exec:java only)", <<"exec:java">>, TRUE) >>
          ELSE << >>)
    \o (IF pkg = "war"
          THEN << Task("Run (Tomcat)", <<"tomcat7:run">>, TRUE) >>
          ELSE << >>)

\* ----------------------------------------------------------------- inputs
\* Packaging of the project the session starts with ("" when it starts
\* without a project: NewModelWithoutProject sets none).
Packagings == {"war"}

\* Modules of the descriptor a session with a project starts with.
InitialModules == <<"core">>

\* Positions of the task-list cursor tried when Enter is pressed
\* (0-based, as tasksList.Index()): "Package" and the first run task.
TaskCursors == {3, 7}

\* Names that can be typed into a wizard field (the keys Update intercepts,
\* such as "m", "d", "p", "q", "r", " ", "1", never reach a text input).
ValidIds == {"foo", "baz", "zoo"}
InvalidId == "4x"

\* The Java version the project wizard hands over.
JavaVersions == {"17"}

\* -------------------------------------------------------- wizard sub-state
NoWizard == [nil |-> TRUE]

\* ProjectCreation, by the values IsValid, GetFolderName and GetArtifactId
\* read: the folder name (inputs[0]), the project id (inputs[2]) and
\* whether the other three inputs are filled in with valid values.
NewProjectCreation == [nil |-> FALSE, folder |-> "", artifact |-> "", rest |-> FALSE]

ProjectCreationInputs ==
    { NewProjectCreation,
      [nil |-> FALSE, folder |-> "", artifact |-> InvalidId, rest |-> TRUE],
      [nil |-> FALSE, folder |-> "zoo", artifact |-> "zoo", rest |-> TRUE],
      [nil |-> FALSE, folder |-> "box", artifact |-> "zoo", rest |-> TRUE] }

\* ProjectCreation.IsValid: no validation error.
PCIsValid(pc) == pc.folder # "" /\ pc.artifact \in ValidIds /\ pc.rest

\* getValueOrDefault(0), getValueOrDefault(2): the placeholder when empty.
GetFolderName(pc) == IF pc.folder = "" THEN "my-app" ELSE pc.folder
GetArtifactId(pc) == IF pc.artifact = "" THEN "my-app" ELSE pc.artifact

\* ModuleCreation, by the module name (inputs[0]); the optional inputs are
\* left empty.
NewModuleCreation == [nil |-> FALSE, name |-> ""]

ModuleNames == {"foo"}

ModuleCreationInputs ==
    { NewModuleCreation, [nil |-> FALSE, name |-> InvalidId] }
    \cup { [nil |-> FALSE, name |-> n] : n \in ModuleNames }

MCIsValid(mc) == mc.name \in ValidIds
GetModuleName(mc) == IF mc.name = "" THEN "my-module" ELSE mc.name

\* DependencyManager, by its mode.
NewDependencyManager == [nil |-> FALSE, mode |-> "common"]

\* len(commonDeps): nine curated dependencies and the "Custom Dependency"
\* sentinel, the last entry.
NumCommonDeps == 10

\* Positions of the dependency-list cursor tried when Enter is pressed:
\* the first entry and the sentinel.
DependencyCursors == {0, NumCommonDeps - 1}

\* --------------------------------------------------------- command builder
\* strings.Join(elems, sep).
RECURSIVE Join(_, _)
Join(elems, sep) ==
    IF Len(elems) = 0 THEN ""
    ELSE IF Len(elems) = 1 THEN elems[1]
    ELSE elems[1] \o sep \o Join(Tail(elems), sep)

\* The names of the records of a list that carry the flag, in list order.
RECURSIVE GetSelectedModules(_)
GetSelectedModules(mods) ==
    IF Len(mods) = 0 THEN << >>
    ELSE (IF Head(mods).Selected THEN << Head(mods).Name >> ELSE << >>)
            \o GetSelectedModules(Tail(mods))

RECURSIVE GetEnabledProfiles(_)
GetEnabledProfiles(profs) ==
    IF Len(profs) = 0 THEN << >>
    ELSE (IF Head(profs).Enabled THEN << Head(profs).ID >> ELSE << >>)
            \o GetEnabledProfiles(Tail(profs))

\* BuildCommand, "Add enabled profiles".
ProfileArgs(project) ==
    LET profiles == GetEnabledProfiles(project.Profiles) IN
    IF Len(profiles) > 0 THEN << "-P", Join(profiles, ",") >> ELSE << >>

\* A modules flag that is emitted whenever some module is selected.
ModuleArgs_NoSubsetTest(project) ==
    LET selectedModules == GetSelectedModules(project.Modules) IN
    IF Len(selectedModules) > 0
      THEN << "-pl", Join(selectedModules, ",") >>
      ELSE << >>

\* BuildCommand, "Add selected modules (if not all selected)".
ModuleArgs(project) ==
    LET selectedModules == GetSelectedModules(project.Modules) IN
    IF Len(selectedModules) > 0 /\ Len(selectedModules) < Len(project.Modules)
      THEN << "-pl", Join(selectedModules, ",") >>
      ELSE << >>

\* Verbosity flags tested one by one instead of in an else-if chain.
VerbosityArgs_Independent(options) ==
    (IF options.Debug THEN << "-X" >> ELSE << >>)
        \o (IF options.Verbose THEN << "-v" >> ELSE << >>)
        \o (IF options.Quiet THEN << "-q" >> ELSE << >>)

\* BuildCommand, "Add output control options".
VerbosityArgs(options) ==
    IF options.Debug THEN << "-X" >>
    ELSE IF options.Verbose THEN << "-v" >>
    ELSE IF options.Quiet THEN << "-q" >>
    ELSE << >>

\* BuildCommand, the Errors, BatchMode and ShowVersion flags.
DetailArgs(options) ==
    (IF options.Errors THEN << "-e" >> ELSE << >>)
        \o (IF options.BatchMode THEN << "-B" >> ELSE << >>)
        \o (IF options.ShowVersion THEN << "-V" >> ELSE << >>)

\* BuildCommand, "Add build options".
BuildOptionArgs(options) ==
    (IF options.SkipTests THEN << "-DskipTests" >> ELSE << >>)
        \o (IF options.Offline THEN << "-o" >> ELSE << >>)
        \o (IF options.UpdateSnapshots THEN << "-U" >> ELSE << >>)
        \o (IF options.Threads # "" THEN << "-T", options.Threads >> ELSE << >>)

\* The flags with the build options ahead of the output control options.
FlagArgs_BuildOptionsFirst(project, options) ==
    ProfileArgs(project) \o ModuleArgs(project) \o BuildOptionArgs(options)
        \o VerbosityArgs(options) \o DetailArgs(options)

\* BuildCommand: the flags, in the order the statements append them.
FlagArgs(project, options) ==
    ProfileArgs(project) \o ModuleArgs(project) \o VerbosityArgs(options)
        \o DetailArgs(options) \o BuildOptionArgs(options)

\* Goals put in front of the flags.
GoalArgs_Prepend(args, goals) == goals \o args

\* BuildCommand, "Add goals": args = append(args, goals...).
GoalArgs(args, goals) == args \o goals

\* BuildCommand(project, goals, options).
BuildCommand(project, goals, options) ==
    LET args == GoalArgs(FlagArgs(project, options), goals) IN
    [Executable |-> project.Executable,
     Args |-> args,
     PrettyArgs |-> Join(args, " ")]

\* ---------------------------------------------------------------- commands
CreateProjectCommand(pc) == [kind |-> "createProject", arg |-> GetArtifactId(pc)]
CreateModuleCommand(mc) == [kind |-> "createModule", arg |-> GetModuleName(mc)]

\* What a finished process reports: exit code and whether Error is set.
\* Execute: a clean exit, a non-zero exit, or a machinery failure (spawn,
\* pipe, wait), which leaves ExitCode at 0 and sets Error.
StreamOutcomes ==
    { [ExitCode |-> 0, Error |-> FALSE],
      [ExitCode |-> 1, Error |-> FALSE],
      [ExitCode |-> 0, Error |-> TRUE] }

\* runInteractiveMavenCommand: the same, and ExitCode 1 with Error when the
\* temporary file cannot be created.
InteractiveOutcomes ==
    StreamOutcomes \cup { [ExitCode |-> 1, Error |-> TRUE] }

NoComplete == [none |-> TRUE]

VARIABLES
    startedWithoutProject, \* Model.startedWithoutProject
    packaging,             \* Model.project.Packaging
    currentView,           \* Model.currentView
    focusedPane,           \* Model.focusedPane
    running,               \* Model.running
    cancelFunc,            \* Model.cancelFunc # nil, in the Model the loop holds
    cancelled,             \* cancel() has been called on the in-flight token
    history,               \* Model.history
    pendingModuleName,     \* Model.pendingModuleName
    pendingJavaVersion,    \* Model.pendingJavaVersion
    projectCreation,       \* Model.projectCreation
    moduleCreation,        \* Model.moduleCreation
    dependencyManager,     \* Model.dependencyManager
    options,               \* Model.options
    modules,               \* Model.project.Modules
    pomModules,            \* the <modules> of the parent pom.xml on disk
    inflight,              \* the commands begun and not yet completed
    lastComplete,          \* the executionCompleteMsg just processed, if the
                           \* last event was one: the view it arrived on, its
                           \* result and the post-processing it caused
    quit,                  \* Update returned tea.Quit
    buildProject,          \* BuildCommand: the *Project argument
    buildGoals,            \* BuildCommand: the goals argument
    buildOptions,          \* BuildCommand: the options argument
    buildResult,           \* BuildCommand: the Command returned by the last call
    execPc,                \* Execute: where the calling goroutine stands
    ctxDone,               \* Execute: ctx.Done() is closed
    child,                 \* the child process: unborn, running, exited, killed
    childExit,             \* the exit code the child ends with on its own
    childLines,            \* the lines the child writes to stdout before it exits
    written,               \* how many of them it has written
    stdoutPipe,            \* lines written to the stdout pipe and not yet read
    pipeClosed,            \* Wait has closed the read end of the pipe
    drain,                 \* the streamOutput goroutine on stdout
    execOutput,            \* result.Output
    execReturn,            \* the result as Execute returned it
    streams,               \* both pipes of the child and their drains
    wizardForm,            \* validation: the wizard whose inputs are validated
    wizardInputs,          \* validation: inputs[i].Value(), as character sequences
    validationErrors,      \* validation: what GetValidationErrors() returned
    validationValid,       \* validation: what IsValid() returned
    pomOriginal,           \* pom.xml: its content when the session loaded it
    pomContent,            \* pom.xml: its content now
    pomAdded,              \* pom.xml: the names AddModuleToPom was given, in order
    projectModules,        \* pom.xml: the module names of m.project as last loaded
    historyIndex           \* history view: historyList.Index(), the cursor

vars ==
    << startedWithoutProject, packaging, currentView, focusedPane, running,
       cancelFunc, cancelled, history, pendingModuleName, pendingJavaVersion,
       projectCreation, moduleCreation, dependencyManager, options, modules,
       pomModules, inflight, lastComplete, quit,
       buildProject, buildGoals, buildOptions, buildResult,
       execPc, ctxDone, child, childExit, childLines, written, stdoutPipe,
       pipeClosed,
       drain, execOutput, execReturn, streams,
       wizardForm, wizardInputs, validationErrors, validationValid,
       pomOriginal, pomContent, pomAdded, projectModules, historyIndex >>

tasks == BuiltInTasks(packaging)

\* LoadProject: every module of the descriptor, selected.
LoadModules(names) == [i \in 1..Len(names) |-> [Name |-> names[i], Selected |-> TRUE]]

\* maven.BuildOptions{}.
NoOptions ==
    [SkipTests |-> FALSE, Offline |-> FALSE, UpdateSnapshots |-> FALSE,
     Threads |-> "", Debug |-> FALSE, Verbose |-> FALSE, Quiet |-> FALSE,
     Errors |-> FALSE, BatchMode |-> FALSE, ShowVersion |-> FALSE]

\* No project, no call made.
NoProject == [Modules |-> << >>, Profiles |-> << >>, Executable |-> "mvn"]
NoResult == [none |-> TRUE]

\* The command builder at rest: the session does not use these variables.
BuildIdle ==
    /\ buildProject = NoProject
    /\ buildGoals = << >>
    /\ buildOptions = NoOptions
    /\ buildResult = NoResult

\* The *Project the session hands to BuildCommand: the UI has no key that
\* enables a profile, so the profiles stay as LoadProject left them and
\* contribute nothing to the arguments.
SessionProject == [Modules |-> modules, Profiles |-> << >>, Executable |-> "mvn"]

\* A task command built from an untouched project and default options.
TaskCommand_Defaults(task) ==
    [kind |-> "task", arg |-> task.Name,
     Args |-> BuildCommand(NoProject, task.Goals, NoOptions).Args]

\* executeTask: cmd := maven.BuildCommand(m.project, task.Goals, m.options).
TaskCommand(task) ==
    [kind |-> "task", arg |-> task.Name,
     Args |-> BuildCommand(SessionProject, task.Goals, options).Args]

\* NewModel(project) and NewModelWithoutProject(workDir).
InitModel(descriptor) ==
    /\ startedWithoutProject \in BOOLEAN
    /\ packaging \in (IF startedWithoutProject THEN {""} ELSE Packagings)
    /\ currentView = (IF startedWithoutProject THEN ViewProjectCreation ELSE ViewMain)
    /\ focusedPane = 1
    /\ running = FALSE
    /\ cancelFunc = FALSE
    /\ cancelled = FALSE
    /\ history = << >>
    /\ pendingModuleName = ""
    /\ pendingJavaVersion = ""
    /\ projectCreation = (IF startedWithoutProject THEN NewProjectCreation ELSE NoWizard)
    /\ moduleCreation = NoWizard
    /\ dependencyManager = NoWizard
    /\ options = NoOptions
    /\ pomModules = (IF startedWithoutProject THEN << >> ELSE descriptor)
    /\ modules = LoadModules(pomModules)
    /\ inflight = << >>
    /\ lastComplete = NoComplete
    /\ quit = FALSE

InitSession == InitModel(InitialModules)

\* The process runner at rest: no call of Execute under way.
RunnerIdle ==
    /\ execPc = "idle"
    /\ ctxDone = FALSE
    /\ child = "unborn"
    /\ childExit = 0
    /\ childLines = << >>
    /\ written = 0
    /\ stdoutPipe = << >>
    /\ pipeClosed = FALSE
    /\ drain = "unborn"
    /\ execOutput = << >>
    /\ execReturn = NoResult
    /\ streams = NoResult

\* The wizard validation at rest: no form under validation.
ValidationIdle ==
    /\ wizardForm = "none"
    /\ wizardInputs = << >>
    /\ validationErrors = NoResult
    /\ validationValid = NoResult

\* The descriptor editor at rest: no descriptor text under edit.
PomIdle ==
    /\ pomOriginal = << >>
    /\ pomContent = << >>
    /\ pomAdded = << >>
    /\ projectModules = << >>

\* The history cursor at rest, on the first row.
HistoryIdle == historyIndex = 0

Init ==
    InitSession /\ BuildIdle /\ RunnerIdle /\ ValidationIdle /\ PomIdle
        /\ HistoryIdle


\* ------------------------------------------------------------ frame groups
build == << buildProject, buildGoals, buildOptions, buildResult >>
runner ==
    << execPc, ctxDone, child, childExit, childLines, written, stdoutPipe,
       pipeClosed,
       drain, execOutput, execReturn, streams >>
validation == << wizardForm, wizardInputs, validationErrors, validationValid >>
pom == << pomOriginal, pomContent, pomAdded, projectModules >>
fixed ==
    << startedWithoutProject, packaging, build, runner, validation, pom,
       historyIndex >>
wizards == << projectCreation, moduleCreation, dependencyManager >>
pending == << pendingModuleName, pendingJavaVersion >>
proj == << modules, pomModules >>
token == << cancelFunc, cancelled >>

\* ------------------------------------------------- beginning an execution
\* An execution begun by a tea.Cmd.  stage: "running" (the goroutine of
\* runMavenCommand is inside maven.Execute), "queued" (the execMsg of
\* tea.ExecProcess waits for the event loop), "callback" (the interactive
\* process has ended, its callback has not yet delivered the result).
\* handle is the cancelFunc field of the Model copy the closure captured:
\* the closure of runMavenCommand writes it there, never into the Model the
\* event loop holds.
Execution(cmd, interactive) ==
    [cmd |-> cmd, interactive |-> interactive,
     stage |-> IF interactive THEN "queued" ELSE "running",
     handle |-> ~interactive]

\* The room the bounds leave for one more execution.
CanBegin ==
    /\ Len(inflight) < MaxInFlight
    /\ Len(history) + Len(inflight) < MaxHistory

\* A command handed to the runtime twice.
runMavenCommand_Twice(cmd) ==
    /\ CanBegin
    /\ inflight' = inflight \o << Execution(cmd, FALSE), Execution(cmd, FALSE) >>

\* runMavenCommand(cmd): the command handed to the runtime.
runMavenCommand(cmd) ==
    /\ CanBegin
    /\ inflight' = Append(inflight, Execution(cmd, FALSE))

\* runInteractiveMavenCommand(cmd): tea.ExecProcess.
runInteractiveMavenCommand(cmd) ==
    /\ CanBegin
    /\ inflight' = Append(inflight, Execution(cmd, TRUE))

\* executeTask(task): a run task goes to the terminal hand-over without
\* setting running; any other task sets running and streams.
executeTask(task) ==
    /\ currentView' = ViewLogs
    /\ IF task.Run
         THEN /\ runInteractiveMavenCommand(TaskCommand(task))
              /\ UNCHANGED running
         ELSE /\ running' = TRUE
              /\ runMavenCommand(TaskCommand(task))
    /\ UNCHANGED << pending, wizards >>

\* A project wizard that begins the command without validating.
handleProjectCreation_Unvalidated ==
    /\ running' = TRUE
    /\ currentView' = ViewLogs
    /\ pendingModuleName' =
          (IF GetFolderName(projectCreation) # GetArtifactId(projectCreation)
             THEN GetFolderName(projectCreation)
             ELSE pendingModuleName)
    /\ \E jv \in JavaVersions : pendingJavaVersion' = jv
    /\ runMavenCommand(CreateProjectCommand(projectCreation))
    /\ UNCHANGED wizards

\* handleProjectCreation.
handleProjectCreation ==
    IF ~PCIsValid(projectCreation)
      THEN UNCHANGED << currentView, running, pending, wizards, inflight >>
      ELSE /\ running' = TRUE
           /\ currentView' = ViewLogs
           /\ pendingModuleName' =
                 (IF GetFolderName(projectCreation) # GetArtifactId(projectCreation)
                    THEN GetFolderName(projectCreation)
                    ELSE pendingModuleName)
           /\ \E jv \in JavaVersions : pendingJavaVersion' = jv
           /\ runMavenCommand(CreateProjectCommand(projectCreation))
           /\ UNCHANGED wizards

\* handleModuleCreation.
handleModuleCreation ==
    IF \/ ~MCIsValid(moduleCreation)
       \/ (~dependencyManager.nil /\ dependencyManager.mode = "custom")
      THEN UNCHANGED << currentView, running, pending, wizards, inflight >>
      ELSE /\ running' = TRUE
           /\ currentView' = ViewLogs
           /\ pendingModuleName' = GetModuleName(moduleCreation)
           /\ runMavenCommand(CreateModuleCommand(moduleCreation))
           /\ UNCHANGED << pendingJavaVersion, wizards >>

\* A dependency Enter that marks the session as running when it shows the
\* snippet.
handleDependencyAddition_Running ==
    \E selectedIdx \in DependencyCursors :
      IF dependencyManager.mode # "custom" /\ selectedIdx = NumCommonDeps - 1
        THEN /\ dependencyManager' = [dependencyManager EXCEPT !.mode = "custom"]
             /\ UNCHANGED << currentView, running, pending, projectCreation,
                             moduleCreation, inflight >>
        ELSE /\ currentView' = ViewLogs
             /\ running' = TRUE
             /\ UNCHANGED << pending, wizards, inflight >>

\* handleDependencyAddition: the sentinel switches to custom mode, anything
\* else writes the snippet to the log and shows it.
handleDependencyAddition ==
    \E selectedIdx \in DependencyCursors :
      IF dependencyManager.mode # "custom" /\ selectedIdx = NumCommonDeps - 1
        THEN /\ dependencyManager' = [dependencyManager EXCEPT !.mode = "custom"]
             /\ UNCHANGED << currentView, running, pending, projectCreation,
                             moduleCreation, inflight >>
        ELSE /\ currentView' = ViewLogs
             /\ UNCHANGED << running, pending, wizards, inflight >>

\* The command of the history row counted from the oldest entry.
HistoryCommand_OldestFirst(h, selectedIdx) == h[selectedIdx + 1].Command

\* histIdx := len(m.history) - 1 - selectedIdx; m.history[histIdx].Command
HistoryCommand(h, selectedIdx) == h[Len(h) - selectedIdx].Command

\* handleEnter, history branch: re-run history[len-1-selectedIdx].
rerunHistory(selectedIdx) ==
    /\ running' = TRUE
    /\ currentView' = ViewLogs
    /\ runMavenCommand(HistoryCommand(history, selectedIdx))
    /\ UNCHANGED << pending, wizards >>

enterNothing == UNCHANGED << currentView, running, pending, wizards, inflight >>

\* handleEnter.
handleEnter ==
    IF currentView = ViewMain /\ focusedPane = 1
      THEN \E selectedIdx \in TaskCursors :
             IF selectedIdx >= 0 /\ selectedIdx < Len(tasks)
               THEN executeTask(tasks[selectedIdx + 1])
               ELSE enterNothing
    ELSE IF currentView = ViewHistory
      THEN IF history = << >>
             THEN enterNothing
             ELSE \E selectedIdx \in 0..(Len(history) - 1) : rerunHistory(selectedIdx)
    ELSE IF currentView = ViewProjectCreation /\ ~projectCreation.nil
      THEN handleProjectCreation
    ELSE IF currentView = ViewModuleCreation /\ ~moduleCreation.nil
      THEN handleModuleCreation
    ELSE IF currentView = ViewDependencyManager /\ ~dependencyManager.nil
      THEN handleDependencyAddition
    ELSE enterNothing

\* Update, case "enter".
KeyEnter ==
    /\ ~quit
    /\ handleEnter
    /\ UNCHANGED << fixed, focusedPane, token, history, options, proj,
                    quit >>
    /\ lastComplete' = NoComplete


\* A toggle that includes the module instead of flipping its flag.
ToggleModule_Include(mods, index) ==
    IF index >= 0 /\ index < Len(mods)
      THEN [mods EXCEPT ![index + 1].Selected = TRUE]
      ELSE mods

\* ToggleModule(index).
ToggleModule(mods, index) ==
    IF index >= 0 /\ index < Len(mods)
      THEN [mods EXCEPT ![index + 1].Selected = ~mods[index + 1].Selected]
      ELSE mods

\* Update, case " ": handleSpace toggles the module under the cursor of
\* the modules pane.
KeySpace ==
    /\ ~quit
    /\ IF currentView = ViewMain /\ focusedPane = 0 /\ Len(modules) > 0
         THEN \E selectedIdx \in 0..(Len(modules) - 1) :
                modules' = ToggleModule(modules, selectedIdx)
         ELSE UNCHANGED modules
    /\ UNCHANGED << fixed, currentView, focusedPane, running, token, history,
                    pending, wizards, options, pomModules, inflight,
                    quit >>
    /\ lastComplete' = NoComplete

\* Update, case "ctrl+c": cancel when a command runs and the Model holds
\* its cancel function, quit otherwise.
KeyCtrlC ==
    /\ ~quit
    /\ IF running /\ cancelFunc
         THEN cancelled' = TRUE /\ UNCHANGED quit
         ELSE quit' = TRUE /\ UNCHANGED cancelled
    /\ UNCHANGED << fixed, currentView, focusedPane, running, cancelFunc,
                    history, pending, wizards, options, proj, inflight >>
    /\ lastComplete' = NoComplete

\* A quit key that quits whether or not a command runs.
KeyQ_Always ==
    /\ ~quit
    /\ quit' = TRUE
    /\ UNCHANGED << fixed, currentView, focusedPane, running, token, history,
                    pending, wizards, options, proj, inflight >>
    /\ lastComplete' = NoComplete

\* Update, case "q".
KeyQ ==
    /\ ~quit
    /\ quit' = ~running
    /\ UNCHANGED << fixed, currentView, focusedPane, running, token, history,
                    pending, wizards, options, proj, inflight >>
    /\ lastComplete' = NoComplete

\* A "shift+tab" that stops at the first pane instead of wrapping around.
PrevPane_Clamp(p) == IF p = 0 THEN 0 ELSE p - 1

\* The pane after "tab" and after "shift+tab".
NextPane(p) == (p + 1) % 3
PrevPane(p) == (p - 1 + 3) % 3

\* Update, case "tab".
KeyTab ==
    /\ ~quit
    /\ focusedPane' = NextPane(focusedPane)
    /\ UNCHANGED << fixed, currentView, running, token, history, pending,
                    wizards, options, proj, inflight, quit >>
    /\ lastComplete' = NoComplete

\* Update, case "shift+tab".
KeyShiftTab ==
    /\ ~quit
    /\ focusedPane' = PrevPane(focusedPane)
    /\ UNCHANGED << fixed, currentView, running, token, history, pending,
                    wizards, options, proj, inflight, quit >>
    /\ lastComplete' = NoComplete

\* A key that toggles between Main and one other view.
ToggleView(other) ==
    IF currentView = ViewMain THEN other
    ELSE IF currentView = other THEN ViewMain
    ELSE currentView

\* Update, case "l".
KeyL ==
    /\ ~quit
    /\ currentView' = ToggleView(ViewLogs)
    /\ UNCHANGED << fixed, focusedPane, running, token, history, pending,
                    wizards, options, proj, inflight, quit >>
    /\ lastComplete' = NoComplete

\* Update, case "h".
KeyH ==
    /\ ~quit
    /\ currentView' = ToggleView(ViewHistory)
    /\ UNCHANGED << fixed, focusedPane, running, token, history, pending,
                    wizards, options, proj, inflight, quit >>
    /\ lastComplete' = NoComplete

\* Update, case "p": a fresh wizard from Main, back to Main from the wizard.
KeyP ==
    /\ ~quit
    /\ currentView' = ToggleView(ViewProjectCreation)
    /\ projectCreation' =
          (IF currentView = ViewMain THEN NewProjectCreation ELSE projectCreation)
    /\ UNCHANGED << fixed, focusedPane, running, token, history, pending,
                    moduleCreation, dependencyManager, options, proj, inflight,
                    quit >>
    /\ lastComplete' = NoComplete

\* A key "m" that reopens the wizard as the earlier visit left it.
KeyM_KeepInput ==
    /\ ~quit
    /\ IF currentView = ViewMain /\ ~startedWithoutProject
         THEN /\ moduleCreation' =
                    (IF moduleCreation.nil THEN NewModuleCreation ELSE moduleCreation)
              /\ currentView' = ViewModuleCreation
         ELSE /\ currentView' =
                    (IF currentView = ViewModuleCreation THEN ViewMain ELSE currentView)
              /\ UNCHANGED moduleCreation
    /\ UNCHANGED << fixed, focusedPane, running, token, history, pending,
                    projectCreation, dependencyManager, options, proj, inflight,
                    quit >>
    /\ lastComplete' = NoComplete

\* Update, case "m".
KeyM ==
    /\ ~quit
    /\ IF currentView = ViewMain /\ ~startedWithoutProject
         THEN moduleCreation' = NewModuleCreation /\ currentView' = ViewModuleCreation
         ELSE /\ currentView' =
                    (IF currentView = ViewModuleCreation THEN ViewMain ELSE currentView)
              /\ UNCHANGED moduleCreation
    /\ UNCHANGED << fixed, focusedPane, running, token, history, pending,
                    projectCreation, dependencyManager, options, proj, inflight,
                    quit >>
    /\ lastComplete' = NoComplete

\* Update, case "d".
KeyD ==
    /\ ~quit
    /\ IF currentView = ViewMain /\ ~startedWithoutProject
         THEN /\ dependencyManager' = NewDependencyManager
              /\ currentView' = ViewDependencyManager
         ELSE /\ currentView' =
                    (IF currentView = ViewDependencyManager THEN ViewMain ELSE currentView)
              /\ UNCHANGED dependencyManager
    /\ UNCHANGED << fixed, focusedPane, running, token, history, pending,
                    projectCreation, moduleCreation, options, proj, inflight,
                    quit >>
    /\ lastComplete' = NoComplete

\* Update, case "esc".
KeyEsc ==
    /\ ~quit
    /\ IF currentView = ViewLogs /\ running /\ cancelFunc
         THEN cancelled' = TRUE /\ UNCHANGED << currentView, dependencyManager >>
       ELSE IF currentView = ViewProjectCreation /\ ~startedWithoutProject
         THEN currentView' = ViewMain /\ UNCHANGED << cancelled, dependencyManager >>
       ELSE IF currentView = ViewModuleCreation
         THEN currentView' = ViewMain /\ UNCHANGED << cancelled, dependencyManager >>
       ELSE IF currentView = ViewDependencyManager
         THEN /\ IF ~dependencyManager.nil /\ dependencyManager.mode = "custom"
                   THEN /\ dependencyManager' = [dependencyManager EXCEPT !.mode = "common"]
                        /\ UNCHANGED currentView
                   ELSE currentView' = ViewMain /\ UNCHANGED dependencyManager
              /\ UNCHANGED cancelled
       ELSE UNCHANGED << cancelled, currentView, dependencyManager >>
    /\ UNCHANGED << fixed, focusedPane, running, cancelFunc, history, pending,
                    projectCreation, moduleCreation, options, proj, inflight,
                    quit >>
    /\ lastComplete' = NoComplete

\* A key "1" that switches SkipTests on instead of flipping it.
Key1_SwitchOn ==
    /\ ~quit
    /\ options' = [options EXCEPT !.SkipTests = TRUE]
    /\ UNCHANGED << fixed, currentView, focusedPane, running, token, history,
                    pending, wizards, proj, inflight, quit >>
    /\ lastComplete' = NoComplete

\* Update, cases "1", "2", "3".
Key1 ==
    /\ ~quit
    /\ options' = [options EXCEPT !.SkipTests = ~options.SkipTests]
    /\ UNCHANGED << fixed, currentView, focusedPane, running, token, history,
                    pending, wizards, proj, inflight, quit >>
    /\ lastComplete' = NoComplete

Key2 ==
    /\ ~quit
    /\ options' = [options EXCEPT !.Offline = ~options.Offline]
    /\ UNCHANGED << fixed, currentView, focusedPane, running, token, history,
                    pending, wizards, proj, inflight, quit >>
    /\ lastComplete' = NoComplete

Key3 ==
    /\ ~quit
    /\ options' = [options EXCEPT !.UpdateSnapshots = ~options.UpdateSnapshots]
    /\ UNCHANGED << fixed, currentView, focusedPane, running, token, history,
                    pending, wizards, proj, inflight, quit >>
    /\ lastComplete' = NoComplete

\* quickRun: the first task whose name contains "Run", if any.
RunTasks == { i \in 1..Len(tasks) : tasks[i].Run }
\* A quick run that takes the last run task of the list.
FirstRunTask_Last == CHOOSE i \in RunTasks : \A j \in RunTasks : i >= j
\* for _, task := range m.tasks: the first match returns.
FirstRunTask == CHOOSE i \in RunTasks : \A j \in RunTasks : i <= j

quickRun ==
    IF RunTasks # {}
      THEN executeTask(tasks[FirstRunTask])
      ELSE UNCHANGED << currentView, running, pending, wizards, inflight >>

\* Update, case "r".
KeyR ==
    /\ ~quit
    /\ IF currentView = ViewMain
         THEN quickRun
         ELSE UNCHANGED << currentView, running, pending, wizards, inflight >>
    /\ UNCHANGED << fixed, focusedPane, token, history, options, proj,
                    quit >>
    /\ lastComplete' = NoComplete

\* Update, any other key: it goes to the component of the current view.
\* Only the two creation wizards keep it in the state modelled here: a
\* text input is edited.
KeyOther ==
    /\ ~quit
    /\ IF currentView = ViewProjectCreation /\ ~projectCreation.nil
         THEN /\ projectCreation' \in ProjectCreationInputs \ {projectCreation}
              /\ UNCHANGED << moduleCreation, dependencyManager >>
       ELSE IF currentView = ViewModuleCreation /\ ~moduleCreation.nil
         THEN /\ moduleCreation' \in ModuleCreationInputs \ {moduleCreation}
              /\ UNCHANGED << projectCreation, dependencyManager >>
       ELSE UNCHANGED wizards
    /\ UNCHANGED << fixed, currentView, focusedPane, running, token, history,
                    pending, options, proj, inflight, quit >>
    /\ lastComplete' = NoComplete


\* ------------------------------------------------ completion of a command
\* A result that drops the error of the machinery.
ExecutionResult_DropError(cmd, out) ==
    [Command |-> cmd, ExitCode |-> out.ExitCode, Error |-> FALSE]

\* The ExecutionResult carried by an executionCompleteMsg.
ExecutionResult(cmd, out) ==
    [Command |-> cmd, ExitCode |-> out.ExitCode, Error |-> out.Error]

\* A history update that puts the new result first instead of last.
AppendHistory_Prepend(h, result) == <<result>> \o h

\* m.history = append(m.history, *msg.result)
AppendHistory(h, result) == Append(h, result)

\* A completion that leaves the active view as it is.
CompletionView_Stay == currentView

\* m.currentView = ViewLogs
CompletionView == ViewLogs

\* The post-processing branch handleExecutionComplete takes: new-project
\* finalization, module registration or none.
CompletionEffect(result) ==
    IF ~projectCreation.nil /\ result.ExitCode = 0 /\ CompletionView = ViewLogs
      THEN "finalize"
    ELSE IF pendingModuleName # "" /\ result.ExitCode = 0
      THEN "register"
    ELSE "none"

\* Remove the i-th element of a sequence.
RemoveAt(seq, i) == SubSeq(seq, 1, i - 1) \o SubSeq(seq, i + 1, Len(seq))

\* handleExecutionComplete(msg).  addOk: AddModuleToPom returned no error;
\* loadOk: the LoadProject that follows returned no error.
handleExecutionComplete(result, addOk, loadOk) ==
    LET effect == CompletionEffect(result) IN
    /\ running' = FALSE
    /\ history' = AppendHistory(history, result)
    /\ currentView' = CompletionView
    /\ IF effect = "finalize"
         THEN /\ pendingJavaVersion' = ""
              /\ pendingModuleName' = ""
              /\ projectCreation' = NoWizard
              /\ UNCHANGED proj
       ELSE IF effect = "register"
         THEN /\ pomModules' =
                    (IF addOk THEN Append(pomModules, pendingModuleName) ELSE pomModules)
              /\ modules' =
                    (IF addOk /\ loadOk THEN LoadModules(pomModules') ELSE modules)
              /\ pendingModuleName' = ""
              /\ UNCHANGED << pendingJavaVersion, projectCreation >>
       ELSE UNCHANGED << pending, projectCreation, proj >>
    /\ lastComplete' =
          [none |-> FALSE, view |-> currentView, result |-> result,
           effect |-> effect,
           name |-> (IF effect = "none" THEN "" ELSE pendingModuleName)]

\* The event loop takes the execMsg of tea.ExecProcess: it gives the
\* terminal to the child and is blocked until the child has ended.
ExecHandover(i) ==
    /\ ~quit
    /\ inflight[i].stage = "queued"
    /\ inflight' = [inflight EXCEPT ![i].stage = "callback"]
    /\ UNCHANGED << fixed, currentView, focusedPane, running, token, history,
                    pending, wizards, options, proj, quit >>
    /\ lastComplete' = NoComplete

\* Update, case executionCompleteMsg, for the i-th execution in flight.
ExecutionComplete(i, out, addOk, loadOk) ==
    /\ ~quit
    /\ inflight[i].stage \in {"running", "callback"}
    /\ out \in (IF inflight[i].interactive THEN InteractiveOutcomes ELSE StreamOutcomes)
    /\ handleExecutionComplete(ExecutionResult(inflight[i].cmd, out), addOk, loadOk)
    /\ inflight' = RemoveAt(inflight, i)
    /\ UNCHANGED << fixed, focusedPane, token, moduleCreation, dependencyManager,
                    options, quit >>

\* The results AddModuleToPom and LoadProject can give: without a project
\* there is no pom.xml in the working directory to edit.
EditResults == IF startedWithoutProject THEN {FALSE} ELSE BOOLEAN

Complete ==
    \E i \in DOMAIN inflight :
      \E out \in InteractiveOutcomes :
        \E addOk \in EditResults :
          \E loadOk \in (IF addOk THEN BOOLEAN ELSE {FALSE}) :
            ExecutionComplete(i, out, addOk, loadOk)

Handover == \E i \in DOMAIN inflight : ExecHandover(i)

\* The key events of the session.  KeySpace, Key1, Key2 and Key3 only toggle
\* the module selection and the option flags, which nothing but the
\* argument list of BuildCommand reads; the session keeps them fixed.
KeyEvent ==
    \/ KeyCtrlC
    \/ KeyQ
    \/ KeyTab
    \/ KeyShiftTab
    \/ KeyL
    \/ KeyH
    \/ KeyP
    \/ KeyEsc
    \/ KeyEnter
    \/ KeyR
    \/ KeyM
    \/ KeyD
    \/ KeyOther

Next ==
    \/ KeyEvent
    \/ Handover
    \/ Complete

Spec == Init /\ [][Next]_vars


\* ------------------------------------------------- the command builder alone
\* Declaration order of the modules and profiles of the descriptor.
DeclaredModules == [i \in 1..MaxModules |-> "m" \o ToString(i)]
DeclaredProfiles == [i \in 1..MaxProfiles |-> "p" \o ToString(i)]

\* Module lists: a prefix of the declared names, every flag combination.
ModuleLists ==
    UNION { { [i \in 1..n |-> [Name |-> DeclaredModules[i], Selected |-> f[i]]] :
                f \in [1..n -> BOOLEAN] } : n \in 0..MaxModules }

ProfileLists ==
    UNION { { [i \in 1..n |-> [ID |-> DeclaredProfiles[i], Enabled |-> f[i]]] :
                f \in [1..n -> BOOLEAN] } : n \in 0..MaxProfiles }

\* Goal lists: none, and two tokens.
GoalLists == { << >>, << "clean", "install" >> }

\* Every BuildOptions value with Threads unset or "4".
OptionValues ==
    [SkipTests : BOOLEAN, Offline : BOOLEAN, UpdateSnapshots : BOOLEAN,
     Threads : {"", "4"}, Debug : BOOLEAN, Verbose : BOOLEAN, Quiet : BOOLEAN,
     Errors : BOOLEAN, BatchMode : BOOLEAN, ShowVersion : BOOLEAN]

\* The session variables, which the command builder never touches.
session ==
    << startedWithoutProject, packaging, currentView, focusedPane, running,
       cancelFunc, cancelled, history, pendingModuleName, pendingJavaVersion,
       projectCreation, moduleCreation, dependencyManager, options, modules,
       pomModules, inflight, lastComplete, quit >>

\* LoadProject: every profile of the descriptor, disabled.
LoadProfiles(ids) == [i \in 1..Len(ids) |-> [ID |-> ids[i], Enabled |-> FALSE]]

\* A project as LoadProject returns it, and the arguments of a call.
InitBuild ==
    /\ startedWithoutProject = FALSE
    /\ InitSession
    /\ buildProject \in
          { [Modules |-> LoadModules(SubSeq(DeclaredModules, 1, n)),
             Profiles |-> LoadProfiles(SubSeq(DeclaredProfiles, 1, k)),
             Executable |-> "mvn"] : n \in 0..MaxModules, k \in 0..MaxProfiles }
    /\ buildGoals \in GoalLists
    /\ buildOptions \in OptionValues
    /\ buildResult = NoResult
    /\ RunnerIdle
    /\ ValidationIdle
    /\ PomIdle
    /\ HistoryIdle

\* A call that filters the module list in place while reading it: the
\* modules it did not select lose their place in the project.
CallBuildCommand_InPlace ==
    /\ buildResult' = BuildCommand(buildProject, buildGoals, buildOptions)
    /\ buildProject' =
          [buildProject EXCEPT !.Modules =
              SelectSeq(buildProject.Modules, LAMBDA m : m.Selected)]
    /\ UNCHANGED << buildGoals, buildOptions, session, runner, validation, pom, historyIndex >>

\* A call of BuildCommand(project, goals, options): the getters range over
\* copies of the entries, args is a fresh slice, options is passed by value.
CallBuildCommand ==
    /\ buildResult' = BuildCommand(buildProject, buildGoals, buildOptions)
    /\ UNCHANGED << buildProject, buildGoals, buildOptions, session, runner, validation, pom, historyIndex >>

\* ToggleProfile(index).
ToggleProfile(profs, index) ==
    IF index >= 0 /\ index < Len(profs)
      THEN [profs EXCEPT ![index + 1].Enabled = ~profs[index + 1].Enabled]
      ELSE profs

\* A call of project.ToggleModule(index), any index from -1 to len.
CallToggleModule ==
    \E index \in -1..Len(buildProject.Modules) :
      /\ buildProject' =
            [buildProject EXCEPT !.Modules = ToggleModule(buildProject.Modules, index)]
      /\ buildResult' = NoResult
      /\ UNCHANGED << buildGoals, buildOptions, session, runner, validation, pom, historyIndex >>

\* A call of project.ToggleProfile(index), any index from -1 to len.
CallToggleProfile ==
    \E index \in -1..Len(buildProject.Profiles) :
      /\ buildProject' =
            [buildProject EXCEPT !.Profiles = ToggleProfile(buildProject.Profiles, index)]
      /\ buildResult' = NoResult
      /\ UNCHANGED << buildGoals, buildOptions, session, runner, validation, pom, historyIndex >>

NextBuild ==
    \/ CallBuildCommand
    \/ CallToggleModule
    \/ CallToggleProfile

SpecBuild == InitBuild /\ [][NextBuild]_vars

\* ------------------------------------------------------- the main screen
\* A session on a project of three modules, and the keys of the main
\* screen: pane focus, module and option toggles, Enter, and the execution
\* Enter begins, up to its completion on the Logs view.
InitMain ==
    /\ startedWithoutProject = FALSE
    /\ InitModel(DeclaredModules)
    /\ BuildIdle
    /\ RunnerIdle
    /\ ValidationIdle
    /\ PomIdle
    /\ HistoryIdle

NextMain ==
    \/ KeyTab
    \/ KeyShiftTab
    \/ KeySpace
    \/ Key1
    \/ Key2
    \/ Key3
    \/ KeyEnter
    \/ Handover
    \/ Complete

SpecMain == InitMain /\ [][NextMain]_vars

\* --------------------------------------------------- the process runner alone
\* One call of Execute(ctx, cmd, workDir, handler) for a child that writes
\* its lines to standard output and exits, with the goroutines the call
\* involves: the caller, the stdout drain, the context watcher of os/exec,
\* and whoever holds the cancel function.
LinesOf(n) == [i \in 1..n |-> "line" \o ToString(i)]

InitExec ==
    /\ startedWithoutProject = FALSE
    /\ InitSession
    /\ BuildIdle
    /\ execPc = "start"
    /\ ctxDone = FALSE
    /\ child = "unborn"
    /\ childExit \in {0, 1}
    /\ childLines \in { LinesOf(n) : n \in 0..MaxLines }
    /\ written = 0
    /\ stdoutPipe = << >>
    /\ pipeClosed = FALSE
    /\ drain = "unborn"
    /\ execOutput = << >>
    /\ execReturn = NoResult
    /\ streams = NoResult
    /\ ValidationIdle
    /\ PomIdle
    /\ HistoryIdle

\* cancel(): the token is triggered, at any moment before Execute returns.
Cancel ==
    /\ execPc \in {"start", "wait", "waited"}
    /\ ~ctxDone
    /\ ctxDone' = TRUE
    /\ UNCHANGED << execPc, child, childExit, childLines, written, stdoutPipe,
                    pipeClosed, drain, execOutput, execReturn, streams, session, build, validation, pom, historyIndex >>

\* Execute up to the two go statements.  Start refuses a context that is
\* already done and can fail for other reasons (StdoutPipe, StderrPipe,
\* Start): Execute then returns the result with Error set and ExitCode
\* left at its zero value.
ExecStart ==
    /\ execPc = "start"
    /\ \E ok \in (IF ctxDone THEN {FALSE} ELSE BOOLEAN) :
          IF ok
            THEN /\ child' = "running"
                 /\ drain' = "scanning"
                 /\ execPc' = "wait"
                 /\ UNCHANGED execReturn
            ELSE /\ execPc' = "returned"
                 /\ execReturn' = [Output |-> execOutput, ExitCode |-> 0, Error |-> TRUE]
                 /\ UNCHANGED << child, drain >>
    /\ UNCHANGED << ctxDone, childExit, childLines, written, stdoutPipe,
                    pipeClosed, execOutput, streams, session, build, validation, pom, historyIndex >>

\* The child writes its next line into the pipe.
ChildWrite ==
    /\ child = "running"
    /\ written < Len(childLines)
    /\ written' = written + 1
    /\ stdoutPipe' = Append(stdoutPipe, childLines[written + 1])
    /\ UNCHANGED << execPc, ctxDone, child, childExit, childLines, pipeClosed,
                    drain, execOutput, execReturn, streams, session, build, validation, pom, historyIndex >>

\* The child exits on its own once it has written everything.
ChildExit ==
    /\ child = "running"
    /\ written = Len(childLines)
    /\ child' = "exited"
    /\ UNCHANGED << execPc, ctxDone, childExit, childLines, written, stdoutPipe,
                    pipeClosed, drain, execOutput, execReturn, streams, session, build, validation, pom, historyIndex >>

\* exec.CommandContext: the watcher kills the process once ctx is done.
Kill ==
    /\ ctxDone
    /\ child = "running"
    /\ child' = "killed"
    /\ UNCHANGED << execPc, ctxDone, childExit, childLines, written, stdoutPipe,
                    pipeClosed, drain, execOutput, execReturn, streams, session, build, validation, pom, historyIndex >>

\* streamOutput: scanner.Scan() delivers a line, which is appended.
DrainScan ==
    /\ drain = "scanning"
    /\ ~pipeClosed
    /\ stdoutPipe # << >>
    /\ execOutput' = Append(execOutput, Head(stdoutPipe))
    /\ stdoutPipe' = Tail(stdoutPipe)
    /\ UNCHANGED << execPc, ctxDone, child, childExit, childLines, written,
                    pipeClosed, drain, execReturn, streams, session, build, validation, pom, historyIndex >>

\* streamOutput: scanner.Scan() returns false, at end of file (the child is
\* gone and the pipe is empty) or because the read end has been closed.
DrainEnd ==
    /\ drain = "scanning"
    /\ \/ pipeClosed
       \/ stdoutPipe = << >> /\ child \in {"exited", "killed"}
    /\ drain' = "done"
    /\ UNCHANGED << execPc, ctxDone, child, childExit, childLines, written,
                    stdoutPipe, pipeClosed, execOutput, execReturn, streams, session, build, validation, pom, historyIndex >>

\* execCmd.Wait() returns: the process has ended, and Wait closes the read
\* ends of the pipes whether or not the drains have finished.
ExecWait ==
    /\ execPc = "wait"
    /\ child \in {"exited", "killed"}
    /\ pipeClosed' = TRUE
    /\ execPc' = "waited"
    /\ UNCHANGED << ctxDone, child, childExit, childLines, written, stdoutPipe,
                    drain, execOutput, execReturn, streams, session, build, validation, pom, historyIndex >>

\* Execute as it would be if it stored every wait error in Error, the exit
\* error of a non-zero exit included.
ExecReturn_EveryWaitError ==
    /\ execPc = "waited"
    /\ execPc' = "returned"
    /\ \E ctxErr \in (IF ctxDone /\ child = "exited" /\ childExit = 0
                        THEN BOOLEAN ELSE {FALSE}) :
          execReturn' =
              [Output |-> execOutput,
               ExitCode |-> (IF child = "killed" THEN -1 ELSE childExit),
               Error |-> (ctxErr \/ child = "killed" \/ childExit # 0)]
    /\ UNCHANGED << ctxDone, child, childExit, childLines, written, stdoutPipe,
                    pipeClosed, drain, execOutput, streams, session, build, validation, pom, historyIndex >>

\* Execute sets ExitCode from the wait error and returns the result: -1
\* for a killed process; for a clean exit the wait error is nil, or the
\* context error when the token was triggered.
ExecReturn ==
    /\ execPc = "waited"
    /\ execPc' = "returned"
    /\ \E ctxErr \in (IF ctxDone /\ child = "exited" /\ childExit = 0
                        THEN BOOLEAN ELSE {FALSE}) :
          execReturn' =
              [Output |-> execOutput,
               ExitCode |-> (IF child = "killed" THEN -1 ELSE childExit),
               Error |-> ctxErr]
    /\ UNCHANGED << ctxDone, child, childExit, childLines, written, stdoutPipe,
                    pipeClosed, drain, execOutput, streams, session, build, validation, pom, historyIndex >>

NextExec ==
    \/ Cancel
    \/ ExecStart
    \/ ChildWrite
    \/ ChildExit
    \/ Kill
    \/ DrainScan
    \/ DrainEnd
    \/ ExecWait
    \/ ExecReturn

SpecExec == InitExec /\ [][NextExec]_vars

\* ------------------------------------------- the two stream drains alone
\* Execute from its two go statements on, for a child that writes lines to
\* standard output and to standard error and exits on its own.  Each drain
\* is a goroutine running streamOutput on its pipe; both append to the same
\* slice, result.Output, through the same pointer.
Streams == {"stdout", "stderr"}

StreamLines(s, n) == [i \in 1..n |-> s \o ToString(i)]

\* A pipe and the goroutine draining it.  pc is the position of the
\* goroutine in streamOutput: "scan" (in scanner.Scan), "append" (the slice
\* header of *output is loaded, the store of the appended slice is still to
\* come), "done" (the loop has ended).
NewStream(lines) ==
    [lines |-> lines, written |-> 0, pipe |-> << >>, pc |-> "scan",
     line |-> "", header |-> << >>]

InitStreams ==
    /\ startedWithoutProject = FALSE
    /\ InitSession
    /\ BuildIdle
    /\ execPc = "wait"
    /\ ctxDone = FALSE
    /\ child = "running"
    /\ childExit = 0
    /\ childLines = << >>
    /\ written = 0
    /\ stdoutPipe = << >>
    /\ pipeClosed = FALSE
    /\ drain = "unborn"
    /\ execOutput = << >>
    /\ execReturn = NoResult
    /\ \E n, k \in 0..MaxLines :
          streams = [s \in Streams |->
                        NewStream(StreamLines(s, IF s = "stdout" THEN n ELSE k))]
    /\ ValidationIdle
    /\ PomIdle
    /\ HistoryIdle

streamsFrame ==
    << ctxDone, childExit, childLines, written, stdoutPipe, drain, execReturn,
       session, build, validation, pom, historyIndex >>

\* The child writes its next line to one of its two streams.
StreamWrite(s) ==
    /\ child = "running"
    /\ streams[s].written < Len(streams[s].lines)
    /\ streams' =
         [streams EXCEPT
            ![s].written = @ + 1,
            ![s].pipe = Append(@, streams[s].lines[streams[s].written + 1])]
    /\ UNCHANGED << execPc, child, pipeClosed, execOutput, streamsFrame >>

\* The child exits on its own once it has written everything.
StreamsChildExit ==
    /\ child = "running"
    /\ \A s \in Streams : streams[s].written = Len(streams[s].lines)
    /\ child' = "exited"
    /\ UNCHANGED << execPc, pipeClosed, execOutput, streams, streamsFrame >>

\* streamOutput: scanner.Scan() delivers a line and append reads *output.
AppendLoad(stream, output) ==
    [stream EXCEPT !.pipe = Tail(@), !.pc = "append",
                   !.line = Head(stream.pipe), !.header = output]

StreamScan(s) ==
    /\ streams[s].pc = "scan"
    /\ ~pipeClosed
    /\ streams[s].pipe # << >>
    /\ streams' = [streams EXCEPT ![s] = AppendLoad(@, execOutput)]
    /\ UNCHANGED << execPc, child, pipeClosed, execOutput, streamsFrame >>

\* streamOutput: the slice append built from what it read is stored in
\* *output.  Nothing orders the load and this store against those of the
\* other goroutine.
StreamAppend(s) ==
    /\ streams[s].pc = "append"
    /\ execOutput' = Append(streams[s].header, streams[s].line)
    /\ streams' = [streams EXCEPT ![s].pc = "scan", ![s].line = "",
                                  ![s].header = << >>]
    /\ UNCHANGED << execPc, child, pipeClosed, streamsFrame >>

\* streamOutput: scanner.Scan() returns false, at end of file or because
\* the read end has been closed.
StreamEnd(s) ==
    /\ streams[s].pc = "scan"
    /\ \/ pipeClosed
       \/ streams[s].pipe = << >> /\ child = "exited"
    /\ streams' = [streams EXCEPT ![s].pc = "done"]
    /\ UNCHANGED << execPc, child, pipeClosed, execOutput, streamsFrame >>

\* execCmd.Wait() returns and closes the read ends of both pipes.
StreamsWait ==
    /\ execPc = "wait"
    /\ child = "exited"
    /\ pipeClosed' = TRUE
    /\ execPc' = "waited"
    /\ UNCHANGED << child, execOutput, streams, streamsFrame >>

NextStreams ==
    \/ \E s \in Streams : StreamWrite(s)
    \/ StreamsChildExit
    \/ \E s \in Streams : StreamScan(s)
    \/ \E s \in Streams : StreamAppend(s)
    \/ \E s \in Streams : StreamEnd(s)
    \/ StreamsWait

SpecStreams == InitStreams /\ [][NextStreams]_vars

\* ------------------------------------------------ wizard validation alone
\* Field values are sequences of one-character strings.
Letters ==
    {"a", "b", "c", "d", "e", "f", "g", "h", "i", "j", "k", "l", "m",
     "n", "o", "p", "q", "r", "s", "t", "u", "v", "w", "x", "y", "z",
     "A", "B", "C", "D", "E", "F", "G", "H", "I", "J", "K", "L", "M",
     "N", "O", "P", "Q", "R", "S", "T", "U", "V", "W", "X", "Y", "Z"}
Digits == {"0", "1", "2", "3", "4", "5", "6", "7", "8", "9"}
\* unicode.IsSpace, on the characters a terminal delivers
WhiteSpace == {" ", "\t", "\n", "\r"}

RECURSIVE TrimLeft(_)
TrimLeft(v) ==
    IF v # << >> /\ Head(v) \in WhiteSpace THEN TrimLeft(Tail(v)) ELSE v

RECURSIVE TrimRight(_)
TrimRight(v) ==
    IF v # << >> /\ v[Len(v)] \in WhiteSpace
      THEN TrimRight(SubSeq(v, 1, Len(v) - 1))
      ELSE v

\* A trim of the leading white space only.
TrimSpace_LeadingOnly(v) == TrimLeft(v)

\* strings.TrimSpace
TrimSpace(v) == TrimRight(TrimLeft(v))

\* strings.Contains(v, c) for a one-character c
Contains(v, c) == \E i \in 1..Len(v) : v[i] = c

\* ^[a-zA-Z][a-zA-Z0-9._-]*$
MatchArtifactID(v) ==
    /\ v # << >>
    /\ v[1] \in Letters
    /\ \A i \in 2..Len(v) : v[i] \in Letters \cup Digits \cup {".", "_", "-"}

\* (\.[a-zA-Z][a-zA-Z0-9._-]*)*$
RECURSIVE MatchGroupTail(_)
MatchGroupTail(v) ==
    \/ v = << >>
    \/ /\ v[1] = "."
       /\ \E k \in 2..Len(v) :
             /\ MatchArtifactID(SubSeq(v, 2, k))
             /\ MatchGroupTail(SubSeq(v, k + 1, Len(v)))

\* ^[a-zA-Z][a-zA-Z0-9._-]*(\.[a-zA-Z][a-zA-Z0-9._-]*)*$
MatchGroupID(v) ==
    \E k \in 1..Len(v) :
        /\ MatchArtifactID(SubSeq(v, 1, k))
        /\ MatchGroupTail(SubSeq(v, k + 1, Len(v)))

\* if value == "" {required} else if Contains(value, " ") {spaces}
\* else if !pattern.MatchString(value) {pattern}
IdentifierErrors(value, label, required) ==
    IF value = << >>
      THEN (IF required THEN << label \o " is required" >> ELSE << >>)
      ELSE IF Contains(value, " ")
        THEN << label \o " cannot contain spaces (use hyphens or underscores instead)" >>
        ELSE IF ~MatchArtifactID(value)
          THEN << label \o " must start with a letter and contain only letters, digits, hyphens, underscores, and periods" >>
          ELSE << >>

\* if value == "" {required} else if !pattern.MatchString(value) {pattern}
GroupErrors(value, required, invalid) ==
    IF value = << >>
      THEN required
      ELSE IF ~MatchGroupID(value) THEN invalid ELSE << >>

RequiredErrors(value, label) ==
    IF value = << >> THEN << label \o " is required" >> ELSE << >>

\* ProjectCreation.GetValidationErrors: Folder Name, Organization,
\* Project ID, Version, Base Package.
ProjectCreationErrors(inputs) ==
    RequiredErrors(TrimSpace(inputs[1]), "Folder Name")
    \o GroupErrors(TrimSpace(inputs[2]), << "Organization is required" >>,
                   << "Organization must start with a letter and contain only letters, digits, dots, hyphens, and underscores (e.g., com.example)" >>)
    \o IdentifierErrors(TrimSpace(inputs[3]), "Project ID", TRUE)
    \o RequiredErrors(TrimSpace(inputs[4]), "Version")
    \o GroupErrors(TrimSpace(inputs[5]), << "Base Package is required" >>,
                   << "Base Package must be a valid Java package name (e.g., com.example)" >>)

\* ModuleCreation.GetValidationErrors: Module Name, Organization (optional),
\* Module ID (optional); the Version is not validated.
ModuleCreationErrors(inputs) ==
    IdentifierErrors(TrimSpace(inputs[1]), "Module Name", TRUE)
    \o GroupErrors(TrimSpace(inputs[2]), << >>,
                   << "Organization must start with a letter and contain only letters, digits, dots, hyphens, and underscores (e.g., com.example)" >>)
    \o IdentifierErrors(TrimSpace(inputs[3]), "Module ID", FALSE)

GetValidationErrors(form, inputs) ==
    IF form = "project" THEN ProjectCreationErrors(inputs)
                        ELSE ModuleCreationErrors(inputs)

\* IsValid: len(GetValidationErrors()) == 0
IsValid(form, inputs) == Len(GetValidationErrors(form, inputs)) = 0

\* The characters typed into a field, and the values up to MaxIdLen long.
Alphabet == {"a", "2", ".", " ", "\t"}
RECURSIVE ValuesOfLength(_)
ValuesOfLength(n) ==
    IF n = 0 THEN { << >> }
    ELSE { Append(v, c) : v \in ValuesOfLength(n - 1), c \in Alphabet }
FieldValues == UNION { ValuesOfLength(n) : n \in 0..MaxIdLen }
\* a field left empty, a valid one, and one the patterns refuse
PlainValues == { << >>, << "a" >>, << "2" >> }

\* The forms with one identifier field holding any value.
InitValidate ==
    /\ startedWithoutProject = FALSE
    /\ InitSession
    /\ BuildIdle
    /\ RunnerIdle
    /\ wizardForm \in {"project", "module"}
    /\ \E org \in PlainValues, id \in FieldValues, other \in PlainValues :
          wizardInputs \in
              IF wizardForm = "project"
                THEN { << folder, org, id, << "1" >>, other >> : folder \in PlainValues }
                ELSE { << id, org, other, << >> >>, << other, org, id, << >> >> }
    /\ validationErrors = NoResult
    /\ validationValid = NoResult
    /\ PomIdle
    /\ HistoryIdle

\* errors := pc.GetValidationErrors()
CallGetValidationErrors ==
    /\ wizardForm # "none"
    /\ validationErrors' = [errors |-> GetValidationErrors(wizardForm, wizardInputs)]
    /\ UNCHANGED << wizardForm, wizardInputs, validationValid, session, build, runner, pom, historyIndex >>

\* pc.IsValid()
CallIsValid ==
    /\ wizardForm # "none"
    /\ validationValid' = [valid |-> IsValid(wizardForm, wizardInputs)]
    /\ UNCHANGED << wizardForm, wizardInputs, validationErrors, session, build, runner, pom, historyIndex >>

NextValidate ==
    \/ CallGetValidationErrors
    \/ CallIsValid

SpecValidate == InitValidate /\ [][NextValidate]_vars

\* ---------------------------------------------- the descriptor editor alone
\* The text of pom.xml as the sequence of its tags, texts and comment
\* delimiters; white space between them is left out.
Open(n) == [k |-> "open", n |-> n]
Close(n) == [k |-> "close", n |-> n]
Text(s) == [k |-> "text", n |-> s]
CommentOpen == [k |-> "comment", n |-> "<!--"]
CommentClose == [k |-> "comment", n |-> "-->"]

Element(n, s) == << Open(n), Text(s), Close(n) >>

\* strings.Index(content, tag): the first position of the tag, 0 for -1.
Index(content, tag) ==
    IF \E i \in DOMAIN content : content[i] = tag
      THEN CHOOSE i \in DOMAIN content :
             content[i] = tag /\ \A j \in 1..(i - 1) : content[j] # tag
      ELSE 0

\* content[:pos] + inserted + content[pos:]
InsertAfter(content, pos, inserted) ==
    SubSeq(content, 1, pos) \o inserted \o SubSeq(content, pos + 1, Len(content))

\* The first tag of insertAfter that the content holds, 0 if none.
RECURSIVE FirstFound(_, _)
FirstFound(content, tags) ==
    IF tags = << >> THEN 0
    ELSE IF Index(content, Head(tags)) # 0 THEN Index(content, Head(tags))
    ELSE FirstFound(content, Tail(tags))

\* AddModuleToPom(pomPath, moduleName): the error and the content written.
AddModuleToPom(content, moduleName) ==
    IF Index(content, Open("modules")) # 0
      THEN LET modulesEnd == Index(content, Close("modules")) IN
           IF modulesEnd = 0
             THEN [err |-> TRUE, content |-> content]
             ELSE [err |-> FALSE,
                   content |-> InsertAfter(content, modulesEnd - 1,
                                           Element("module", moduleName))]
      ELSE LET insertPos ==
                  FirstFound(content, << Close("packaging"), Close("version"),
                                         Close("artifactId") >>) IN
           IF insertPos = 0
             THEN [err |-> TRUE, content |-> content]
             ELSE [err |-> FALSE,
                   content |-> InsertAfter(content, insertPos,
                                           << Open("modules") >>
                                               \o Element("module", moduleName)
                                               \o << Close("modules") >>)]

\* xml.Unmarshal into POM, field Modules.Module: the texts of the module
\* elements in a modules element that is a child of project, in document
\* order; comments and every other element are skipped.
RECURSIVE UnmarshalModules(_, _, _)
UnmarshalModules(content, path, inComment) ==
    IF content = << >> THEN << >>
    ELSE LET t == Head(content)
             rest == Tail(content) IN
         IF t = CommentOpen THEN UnmarshalModules(rest, path, TRUE)
         ELSE IF t = CommentClose THEN UnmarshalModules(rest, path, FALSE)
         ELSE IF inComment THEN UnmarshalModules(rest, path, TRUE)
         ELSE IF t.k = "open" THEN UnmarshalModules(rest, Append(path, t.n), FALSE)
         ELSE IF t.k = "close"
           THEN UnmarshalModules(rest, SubSeq(path, 1, Len(path) - 1), FALSE)
         ELSE (IF path = << "project", "modules", "module" >> THEN << t.n >> ELSE << >>)
                 \o UnmarshalModules(rest, path, FALSE)

\* LoadProject: the names of project.Modules.
LoadProject(content) == UnmarshalModules(content, << >>, FALSE)

\* The modules sections a descriptor can carry.
PomModuleNames == [i \in 1..MaxPomModules |-> "m" \o ToString(i)]

RECURSIVE ModuleElements(_)
ModuleElements(names) ==
    IF names = << >> THEN << >>
    ELSE Element("module", Head(names)) \o ModuleElements(Tail(names))

ModulesSection(names) ==
    << Open("modules") >> \o ModuleElements(names) \o << Close("modules") >>

\* Well-formed descriptors: an optional parent reference, the project's own
\* coordinates, an optional packaging, an optional commented-out modules
\* section, an optional modules section and an optional profile that
\* carries modules of its own.
Descriptor(hasParent, hasVersion, hasPackaging, hasComment, declared, hasProfile) ==
    << Open("project") >>
    \o (IF hasParent
          THEN << Open("parent") >> \o Element("artifactId", "up")
                   \o Element("version", "1") \o << Close("parent") >>
          ELSE << >>)
    \o Element("artifactId", "app")
    \o (IF hasVersion THEN Element("version", "1") ELSE << >>)
    \o (IF hasPackaging THEN Element("packaging", "pom") ELSE << >>)
    \o (IF hasComment
          THEN << CommentOpen >> \o ModulesSection(<< "old" >>) \o << CommentClose >>
          ELSE << >>)
    \o (IF declared >= 0
          THEN ModulesSection(SubSeq(PomModuleNames, 1, declared))
          ELSE << >>)
    \o (IF hasProfile
          THEN << Open("profiles"), Open("profile") >> \o Element("id", "it")
                   \o ModulesSection(<< "it-tests" >>)
                   \o << Close("profile"), Close("profiles") >>
          ELSE << >>)
    \o << Close("project") >>

Descriptors ==
    { Descriptor(hasParent, hasVersion, hasPackaging, hasComment, declared, hasProfile) :
        hasParent \in BOOLEAN, hasVersion \in BOOLEAN, hasPackaging \in BOOLEAN,
        hasComment \in BOOLEAN, declared \in -1..MaxPomModules,
        hasProfile \in BOOLEAN }

\* The session has loaded the project from the descriptor.
InitPom ==
    /\ startedWithoutProject = FALSE
    /\ InitSession
    /\ BuildIdle
    /\ RunnerIdle
    /\ ValidationIdle
    /\ pomOriginal \in Descriptors
    /\ pomContent = pomOriginal
    /\ pomAdded = << >>
    /\ projectModules = LoadProject(pomOriginal)
    /\ HistoryIdle

\* handleExecutionComplete, module registration: AddModuleToPom, and on
\* success the reload of the project.
RegisterModule ==
    /\ Len(pomAdded) < MaxAdds
    /\ \E moduleName \in ValidIds :
          LET edit == AddModuleToPom(pomContent, moduleName) IN
          IF edit.err
            THEN UNCHANGED << pomContent, pomAdded, projectModules >>
            ELSE /\ pomContent' = edit.content
                 /\ pomAdded' = Append(pomAdded, moduleName)
                 /\ projectModules' = LoadProject(edit.content)
    /\ UNCHANGED << pomOriginal, session, build, runner, validation,
                    historyIndex >>

NextPom == RegisterModule

SpecPom == InitPom /\ [][NextPom]_vars

\* ----------------------------------------------------- the history view alone
\* The history view of a session that has run some tasks, with the cursor
\* of the history list kept as state.
PastTasks == [i \in 1..MaxEntries |-> BuiltInTasks("war")[i]]

\* The result of a task run with every module included and no option set:
\* BuildCommand gives the goals and nothing else.
PastResult(i) ==
    [Command |-> [kind |-> "task", arg |-> PastTasks[i].Name,
                  Args |-> PastTasks[i].Goals],
     ExitCode |-> 0, Error |-> FALSE]

\* refreshHistoryList: the rows of the list, newest entry first.
HistoryItems(h) == [i \in 1..Len(h) |-> h[Len(h) + 1 - i]]

\* A project session on the main view after n tasks have run to their
\* end, nothing in flight.
InitHistory ==
    /\ startedWithoutProject = FALSE
    /\ packaging \in Packagings
    /\ currentView = ViewMain
    /\ focusedPane = 1
    /\ running = FALSE
    /\ cancelFunc = FALSE
    /\ cancelled = FALSE
    /\ history \in { [i \in 1..n |-> PastResult(i)] : n \in 0..MaxEntries }
    /\ pendingModuleName = ""
    /\ pendingJavaVersion = ""
    /\ projectCreation = NoWizard
    /\ moduleCreation = NoWizard
    /\ dependencyManager = NoWizard
    /\ options = NoOptions
    /\ pomModules = InitialModules
    /\ modules = LoadModules(pomModules)
    /\ inflight = << >>
    /\ lastComplete = NoComplete
    /\ quit = FALSE
    /\ BuildIdle
    /\ RunnerIdle
    /\ ValidationIdle
    /\ PomIdle
    /\ historyIndex = 0

\* The frame of a step of the history view.
historyFrame ==
    << startedWithoutProject, packaging, focusedPane, token, pending, wizards,
       options, proj, quit, build, runner, validation, pom >>

\* historyList.Update, cursor keys: one row down, one row up.
CursorDown ==
    /\ currentView = ViewHistory
    /\ historyIndex < Len(HistoryItems(history)) - 1
    /\ historyIndex' = historyIndex + 1
    /\ lastComplete' = NoComplete
    /\ UNCHANGED << currentView, running, history, inflight, historyFrame >>

CursorUp ==
    /\ currentView = ViewHistory
    /\ historyIndex > 0
    /\ historyIndex' = historyIndex - 1
    /\ lastComplete' = NoComplete
    /\ UNCHANGED << currentView, running, history, inflight, historyFrame >>

\* Update, case "enter", on the history view: handleEnter with
\* selectedIdx := m.historyList.Index().
HistoryEnter ==
    /\ currentView = ViewHistory
    /\ Len(inflight) < MaxInFlight
    /\ IF historyIndex >= 0 /\ historyIndex < Len(history)
         THEN /\ running' = TRUE
              /\ currentView' = ViewLogs
              /\ inflight' =
                    Append(inflight,
                           Execution(HistoryCommand(history, historyIndex), FALSE))
         ELSE UNCHANGED << currentView, running, inflight >>
    /\ lastComplete' = NoComplete
    /\ UNCHANGED << history, historyIndex, historyFrame >>

NextHistory ==
    \/ KeyH
    \/ KeyL
    \/ CursorDown
    \/ CursorUp
    \/ HistoryEnter

SpecHistory == InitHistory /\ [][NextHistory]_vars

\* ---------------------------------------------------- the quick-run key
\* Sessions on projects of each kind of packaging: a jar project has two
\* run tasks, a war project one, a pom project (a parent of modules) none.
QuickPackagings == {"jar", "war", "pom"}

InitQuickRun ==
    /\ startedWithoutProject = FALSE
    /\ packaging \in QuickPackagings
    /\ currentView = ViewMain
    /\ focusedPane = 1
    /\ running = FALSE
    /\ cancelFunc = FALSE
    /\ cancelled = FALSE
    /\ history = << >>
    /\ pendingModuleName = ""
    /\ pendingJavaVersion = ""
    /\ projectCreation = NoWizard
    /\ moduleCreation = NoWizard
    /\ dependencyManager = NoWizard
    /\ options = NoOptions
    /\ pomModules = InitialModules
    /\ modules = LoadModules(pomModules)
    /\ inflight = << >>
    /\ lastComplete = NoComplete
    /\ quit = FALSE
    /\ BuildIdle
    /\ RunnerIdle
    /\ ValidationIdle
    /\ PomIdle
    /\ HistoryIdle

NextQuickRun ==
    \/ KeyR
    \/ KeyL
    \/ KeyTab
    \/ Key1
    \/ Handover
    \/ Complete

SpecQuickRun == InitQuickRun /\ [][NextQuickRun]_vars

\* ==================================================================== claims

\* C1 (as claimed): while running is true no event begins another
\* execution, so at most one execution is ever in flight.
C1_SingleFlight ==
    [][running => Len(inflight') <= Len(inflight)]_vars

\* C2 (as claimed): Ctrl+C pressed while a command runs signals the
\* cancellation token and does not quit.
C2_CtrlCCancels ==
    [][(KeyCtrlC /\ running) => (cancelled' /\ ~quit')]_vars

\* C3 (as claimed): in every state the event loop holds, running is true
\* exactly when a cancel function is present.
C3_RunningIffHandle == running <=> cancelFunc

\* C4 (as claimed): a run cancelled with Ctrl+C still gets its completion
\* event processed, so the session never ends with running still true.
C4_CancelledRunCompletes == quit => ~running

\* C5 (as claimed): a pending marker belongs to an execution in flight;
\* once every execution begun has completed, both markers are empty.
C5_PendingCleared ==
    inflight = << >> => (pendingModuleName = "" /\ pendingJavaVersion = "")

\* C6 (as claimed): a completion registers module N only when it is the
\* completion, with exit code 0, of the create-module command for N.
C6_RegisterOnlyForCreateModule ==
    (~lastComplete.none /\ lastComplete.effect = "register") =>
        /\ lastComplete.result.Command = [kind |-> "createModule", arg |-> lastComplete.name]
        /\ lastComplete.result.ExitCode = 0

\* C7 (as claimed): a completion finalizes a new project only when it is
\* the completion, with exit code 0, of a create-project command.
C7_FinalizeOnlyForCreateProject ==
    (~lastComplete.none /\ lastComplete.effect = "finalize") =>
        /\ lastComplete.result.Command.kind = "createProject"
        /\ lastComplete.result.ExitCode = 0

\* C8: the history is append-only: an execution-completed event appends
\* its own result as the last entry and leaves the older entries alone,
\* and no other event changes the history.
C8_HistoryAppendOnly ==
    [][IF lastComplete'.none
         THEN history' = history
         ELSE /\ Len(history') = Len(history) + 1
              /\ SubSeq(history', 1, Len(history)) = history
              /\ history'[Len(history')] = lastComplete'.result
              /\ \E i \in DOMAIN inflight :
                    /\ inflight[i].cmd = lastComplete'.result.Command
                    /\ inflight' = RemoveAt(inflight, i)]_vars

\* C8 witness: two completions have been processed, the second one while an
\* entry with another result was already in the history.
C8_Witness ==
    /\ ~lastComplete.none
    /\ Len(history) = 2
    /\ history[1] # history[2]

CreateProjectBegun ==
    \/ \E i \in DOMAIN history : history[i].Command.kind = "createProject"
    \/ \E i \in DOMAIN inflight : inflight[i].cmd.kind = "createProject"

\* C10 (as claimed): a session started without a project stays on the
\* project wizard until a create-project execution has been begun.
C10_WizardIsOnlyScreen ==
    (startedWithoutProject /\ ~CreateProjectBegun) => currentView = ViewProjectCreation


\* The names of the included modules, in declaration order.
IncludedNames ==
    LET inc == SelectSeq(buildProject.Modules, LAMBDA m : m.Selected) IN
    [i \in 1..Len(inc) |-> inc[i].Name]

\* The positions of a token in an argument vector.
Positions(args, tok) == { i \in DOMAIN args : args[i] = tok }

\* C11: the command BuildCommand returned carries -pl exactly when the
\* included modules are a non-empty proper subset of all modules, and then
\* -pl occurs once and is followed by their comma-joined names in
\* declaration order.
C11_ModulesFlag ==
    buildResult # NoResult =>
        LET args == buildResult.Args
            at == Positions(args, "-pl")
            proper == /\ Len(IncludedNames) > 0
                      /\ Len(IncludedNames) < Len(buildProject.Modules)
        IN /\ (at # {}) <=> proper
           /\ proper =>
                /\ Cardinality(at) = 1
                /\ \A i \in at : i < Len(args) /\ args[i + 1] = Join(IncludedNames, ",")

\* C11 witness: three modules with the second excluded, and the command
\* built for them names m1 and m3 after -pl.
C11_Witness ==
    /\ buildResult # NoResult
    /\ Len(buildProject.Modules) = 3
    /\ IncludedNames = << "m1", "m3" >>
    /\ \E i \in DOMAIN buildResult.Args :
          buildResult.Args[i] = "-pl" /\ buildResult.Args[i + 1] = "m1,m3"

\* The verbosity flags that occur in an argument vector.
VerbosityFlags(args) == { t \in {"-X", "-v", "-q"} : Positions(args, t) # {} }

\* C12: the command BuildCommand returned carries at most one verbosity
\* flag: -X when debug is set, else -v when verbose is set, else -q when
\* quiet is set, else none; the flag occurs once.
C12_OneVerbosityFlag ==
    buildResult # NoResult =>
        LET args == buildResult.Args IN
        /\ VerbosityFlags(args) =
              (IF buildOptions.Debug THEN {"-X"}
               ELSE IF buildOptions.Verbose THEN {"-v"}
               ELSE IF buildOptions.Quiet THEN {"-q"}
               ELSE {})
        /\ \A t \in VerbosityFlags(args) : Cardinality(Positions(args, t)) = 1

\* C12 witness: debug, verbose and quiet all set, and the command built
\* carries -X alone.
C12_Witness ==
    /\ buildResult # NoResult
    /\ buildOptions.Debug /\ buildOptions.Verbose /\ buildOptions.Quiet
    /\ VerbosityFlags(buildResult.Args) = {"-X"}

\* The place of a token in the fixed sequence: 1 profiles, 2 modules,
\* 3 verbosity, 4 show-error-detail, 5 batch, 6 show-version, 7 skip-tests,
\* 8 offline, 9 update-snapshots, 10 thread-count, 11 goals.
ProfileTokens ==
    {"-P"} \cup ({ Join(GetEnabledProfiles(ps), ",") : ps \in ProfileLists } \ {""})
ModuleTokens ==
    {"-pl"} \cup ({ Join(GetSelectedModules(ms), ",") : ms \in ModuleLists } \ {""})

Rank(tok) ==
    IF tok \in ProfileTokens THEN 1
    ELSE IF tok \in ModuleTokens THEN 2
    ELSE IF tok \in {"-X", "-v", "-q"} THEN 3
    ELSE IF tok = "-e" THEN 4
    ELSE IF tok = "-B" THEN 5
    ELSE IF tok = "-V" THEN 6
    ELSE IF tok = "-DskipTests" THEN 7
    ELSE IF tok = "-o" THEN 8
    ELSE IF tok = "-U" THEN 9
    ELSE IF tok \in {"-T", "4"} THEN 10
    ELSE 11

\* C13: in the argument vector BuildCommand returned no element stands
\* before an element that comes earlier in the fixed sequence, and each of
\* -P, -pl and -T stands directly before its value.
C13_FixedOrder ==
    buildResult # NoResult =>
        LET args == buildResult.Args IN
        /\ \A i \in 1..(Len(args) - 1) : Rank(args[i]) <= Rank(args[i + 1])
        /\ \A i \in DOMAIN args :
              args[i] \in {"-P", "-pl", "-T"} =>
                  /\ i < Len(args)
                  /\ Rank(args[i + 1]) = Rank(args[i])
                  /\ args[i + 1] \notin {"-P", "-pl", "-T"}

\* C13 witness: a command in which every element of the sequence is
\* emitted, from the profiles flag to the goals.
C13_Witness ==
    /\ buildResult # NoResult
    /\ { Rank(buildResult.Args[i]) : i \in DOMAIN buildResult.Args } = 1..11

\* C14: the argument vector BuildCommand returned ends with exactly the
\* goal tokens supplied, in the order supplied, everything before them is a
\* flag or a flag's value, and PrettyArgs is the vector joined by spaces.
C14_GoalsVerbatim ==
    buildResult # NoResult =>
        LET args == buildResult.Args
            nflags == Len(args) - Len(buildGoals)
        IN /\ nflags >= 0
           /\ SubSeq(args, nflags + 1, Len(args)) = buildGoals
           /\ \A i \in 1..nflags : Rank(args[i]) < 11
           /\ buildResult.PrettyArgs = Join(args, " ")

\* C14 witness: a command built from an empty goal list: its vector is not
\* empty and holds flags only.
C14_Witness ==
    /\ buildResult # NoResult
    /\ buildGoals = << >>
    /\ Len(buildResult.Args) > 0
    /\ buildResult.PrettyArgs # ""

Changed(before, after) == { i \in DOMAIN before : after[i] # before[i] }

\* C17: for the project of every reachable state, toggling a module or a
\* profile at a valid index flips the flag of that entry and nothing else,
\* toggling it twice gives the list back, and an index out of range changes
\* nothing; a toggle step changes at most one entry of the project and
\* never the length or the order of its lists.
C17_ToggleInvolution ==
    [][LET ms == buildProject.Modules
           ps == buildProject.Profiles
       IN /\ \A index \in 0..(Len(ms) - 1) :
                LET t == ToggleModule(ms, index) IN
                /\ DOMAIN t = DOMAIN ms
                /\ Changed(ms, t) = {index + 1}
                /\ t[index + 1] = [ms[index + 1] EXCEPT !.Selected = ~ms[index + 1].Selected]
                /\ ToggleModule(t, index) = ms
          /\ \A index \in 0..(Len(ps) - 1) :
                LET t == ToggleProfile(ps, index) IN
                /\ DOMAIN t = DOMAIN ps
                /\ Changed(ps, t) = {index + 1}
                /\ t[index + 1] = [ps[index + 1] EXCEPT !.Enabled = ~ps[index + 1].Enabled]
                /\ ToggleProfile(t, index) = ps
          /\ \A index \in {-1, Len(ms), Len(ms) + 1} : ToggleModule(ms, index) = ms
          /\ \A index \in {-1, Len(ps), Len(ps) + 1} : ToggleProfile(ps, index) = ps
          /\ buildResult' = NoResult =>
                /\ DOMAIN buildProject'.Modules = DOMAIN ms
                /\ DOMAIN buildProject'.Profiles = DOMAIN ps
                /\ \A i \in DOMAIN ms : buildProject'.Modules[i].Name = ms[i].Name
                /\ \A i \in DOMAIN ps : buildProject'.Profiles[i].ID = ps[i].ID
                /\ Cardinality(Changed(ms, buildProject'.Modules))
                     + Cardinality(Changed(ps, buildProject'.Profiles)) <= 1]_vars

\* C17 witness: toggles have excluded a module of three and enabled a
\* profile of two, the other entries keeping their loaded flags.
C17_Witness ==
    /\ buildResult = NoResult
    /\ Len(buildProject.Modules) = 3
    /\ Len(buildProject.Profiles) = 2
    /\ ~buildProject.Modules[2].Selected
    /\ buildProject.Modules[1].Selected /\ buildProject.Modules[3].Selected
    /\ buildProject.Profiles[2].Enabled /\ ~buildProject.Profiles[1].Enabled

\* The names of the modules the session includes, in declaration order.
SessionIncluded ==
    LET inc == SelectSeq(modules, LAMBDA m : m.Selected) IN
    [i \in 1..Len(inc) |-> inc[i].Name]

\* C16: the task command an Enter step begins is built from the session as
\* it is when the key is pressed: -pl occurs exactly when the included
\* modules are a non-empty proper subset and is followed by their names,
\* the option flags are those switched on, and the vector ends with the
\* goals of the task under a cursor position.
C16_CommandReflectsSession ==
    [][Len(inflight') > Len(inflight) =>
          LET cmd == inflight'[Len(inflight')].cmd
              args == cmd.Args
              at == Positions(args, "-pl")
              proper == /\ Len(SessionIncluded) > 0
                        /\ Len(SessionIncluded) < Len(modules)
          IN cmd.kind = "task" =>
               /\ (at # {}) <=> proper
               /\ \A i \in at : i < Len(args) /\ args[i + 1] = Join(SessionIncluded, ",")
               /\ (Positions(args, "-DskipTests") # {}) <=> options.SkipTests
               /\ (Positions(args, "-o") # {}) <=> options.Offline
               /\ (Positions(args, "-U") # {}) <=> options.UpdateSnapshots
               /\ \E c \in TaskCursors :
                     /\ tasks[c + 1].Name = cmd.arg
                     /\ Len(args) >= Len(tasks[c + 1].Goals)
                     /\ SubSeq(args, Len(args) - Len(tasks[c + 1].Goals) + 1, Len(args))
                          = tasks[c + 1].Goals]_vars

\* C16 witness: with the second of three modules excluded by Space, Enter
\* on Package has begun a command that names m1 and m3 after -pl and ends
\* with package.
C16_Witness ==
    /\ Len(modules) = 3
    /\ SessionIncluded = << "m1", "m3" >>
    /\ \E e \in DOMAIN inflight :
          LET args == inflight[e].cmd.Args IN
          /\ inflight[e].cmd.arg = "Package"
          /\ \E i \in DOMAIN args : args[i] = "-pl" /\ args[i + 1] = "m1,m3"
          /\ args[Len(args)] = "package"


\* C18: for a child that writes N lines to standard output and exits on
\* its own, the result Execute returns holds exactly those N lines, in
\* order, whatever the interleaving of Wait and the stdout drain.
C18_OutputHasAllLines ==
    (execPc = "returned" /\ child = "exited") =>
        execReturn.Output = childLines

\* C19: when the token is triggered before the child has exited on its
\* own, the result Execute returns has a non-zero exit code.
C19_CancelledIsNonZero ==
    (execPc = "returned" /\ ctxDone /\ child # "exited") =>
        execReturn.ExitCode # 0


\* The identifier fields of a form: Project ID; Module Name and Module ID.
IdentifierFields(form) == IF form = "project" THEN {3} ELSE {1, 3}

\* White space between two characters that are not white space.
InnerWhiteSpace(v) ==
    \E i, j, k \in 1..Len(v) :
        /\ i < j /\ j < k
        /\ v[i] \notin WhiteSpace /\ v[j] \in WhiteSpace /\ v[k] \notin WhiteSpace

\* The value with white space added in front, behind, or on both sides.
Padded(v) ==
    { l \o v \o r : l, r \in { << >>, << " " >>, << "\t" >>, << " ", " " >> } }

\* C20: an identifier field (Project ID, Module Name, Module ID) that
\* still holds white space after trimming, or that starts with a digit, is
\* rejected; inputs that are valid stay valid with white space added around
\* an identifier; IsValid is true exactly when the error list is empty.
C20_IdentifierValidation ==
    /\ validationErrors # NoResult =>
          \A f \in IdentifierFields(wizardForm) :
              LET v == wizardInputs[f] IN
              (InnerWhiteSpace(v) \/ (v # << >> /\ v[1] \in Digits)) =>
                  validationErrors.errors # << >>
    /\ validationValid # NoResult =>
          /\ \A f \in IdentifierFields(wizardForm) :
                LET v == wizardInputs[f] IN
                (InnerWhiteSpace(v) \/ (v # << >> /\ v[1] \in Digits)) =>
                    ~validationValid.valid
          /\ validationValid.valid =>
                \A f \in IdentifierFields(wizardForm) :
                \A p \in Padded(wizardInputs[f]) :
                    IsValid(wizardForm, [wizardInputs EXCEPT ![f] = p])
    /\ (validationErrors # NoResult /\ validationValid # NoResult) =>
          (validationValid.valid <=> validationErrors.errors = << >>)

\* C20 witness: a Project ID typed with white space on both sides has been
\* validated, with no error and IsValid true.
C20_Witness ==
    /\ wizardForm = "project"
    /\ wizardInputs[3] = << " ", "a", "\t" >>
    /\ validationErrors = [errors |-> << >>]
    /\ validationValid = [valid |-> TRUE]


\* C21 (as claimed): after module registrations that reported no error,
\* the descriptor declares the modules it declared before followed by the
\* names registered, in order, and the session's module list is the one
\* of the descriptor as reloaded.
C21_ModuleRegistered ==
    pomAdded # << >> =>
        /\ LoadProject(pomContent) = LoadProject(pomOriginal) \o pomAdded
        /\ projectModules = LoadProject(pomContent)


\* Enter is pressed on a creation wizard that holds an invalid field.
InvalidWizardEnter ==
    /\ KeyEnter
    /\ \/ /\ currentView = ViewProjectCreation
          /\ ~projectCreation.nil
          /\ ~PCIsValid(projectCreation)
       \/ /\ currentView = ViewModuleCreation
          /\ ~moduleCreation.nil
          /\ ~MCIsValid(moduleCreation)

\* C22: Enter on the project wizard or the module wizard with an invalid
\* field begins no execution and changes nothing: the view, running, the
\* history, the pending markers and the field values stay as they are.
C22_InvalidEnterIsNoOp ==
    [][InvalidWizardEnter =>
          UNCHANGED << currentView, running, history, pending, wizards,
                       inflight, token, options, proj, focusedPane, quit >>]_vars

\* C22 witness: the project wizard of a session started without a project
\* holds an invalid project id, and no execution has been begun: Enter has
\* left the session here.
C22_Witness ==
    /\ currentView = ViewProjectCreation
    /\ projectCreation.artifact = InvalidId
    /\ ~running
    /\ inflight = << >>
    /\ history = << >>


\* Enter is pressed on the project wizard with every field valid.
ValidProjectEnter ==
    /\ ~quit
    /\ currentView = ViewProjectCreation
    /\ ~projectCreation.nil
    /\ PCIsValid(projectCreation)

\* One more execution is in flight, the create-project command for the
\* entered project id, and the session is on Logs with running true.
ProjectEnterBegins ==
    /\ KeyEnter
    /\ currentView' = ViewLogs
    /\ running'
    /\ Len(inflight') = Len(inflight) + 1
    /\ SubSeq(inflight', 1, Len(inflight)) = inflight
    /\ inflight'[Len(inflight')].cmd =
          [kind |-> "createProject", arg |-> projectCreation.artifact]
    /\ inflight'[Len(inflight')].stage = "running"

\* C23: Enter on the project wizard with every field valid begins exactly
\* one execution, of the create-project command for the entered project
\* id, and leaves the session on Logs with running true: the step is
\* possible, and every Enter step taken there is such a step.
C23_ValidProjectEnterBegins ==
    /\ []((ValidProjectEnter /\ CanBegin) => ENABLED ProjectEnterBegins)
    /\ [][(ValidProjectEnter /\ KeyEnter) => ProjectEnterBegins]_vars

\* C23 witness: a session started without a project has left the wizard
\* for Logs with the create-project command as its only execution.
C23_Witness ==
    /\ startedWithoutProject
    /\ currentView = ViewLogs
    /\ running
    /\ history = << >>
    /\ Len(inflight) = 1
    /\ inflight[1].cmd.kind = "createProject"


\* Enter on the module wizard begins the create-module execution: Logs,
\* running, the module name pending, one more execution in flight.
ModuleEnterBegins ==
    /\ KeyEnter
    /\ currentView' = ViewLogs
    /\ running'
    /\ pendingModuleName' = moduleCreation.name
    /\ Len(inflight') = Len(inflight) + 1
    /\ inflight'[Len(inflight')].cmd =
          [kind |-> "createModule", arg |-> moduleCreation.name]

\* C24 (as claimed): whenever the module wizard is the active view with
\* valid fields and nothing runs, Enter begins the create-module execution,
\* moves to Logs with running true and records the module name as pending,
\* whatever was visited before.
C24_ValidModuleEnterBegins ==
    (/\ ~quit
     /\ currentView = ViewModuleCreation
     /\ ~moduleCreation.nil
     /\ MCIsValid(moduleCreation)
     /\ ~running
     /\ CanBegin)
        => ENABLED ModuleEnterBegins


\* C25 (as claimed): the unit of work that runs a command writes no field
\* of a Model, the cancel function included; it only returns the
\* completion event.
C25_BackgroundWritesNothing ==
    \A i \in DOMAIN inflight : ~inflight[i].handle


\* C26 (as claimed): the logs key pressed on Logs while a command runs
\* leaves the session on Logs.
C26_LogsKeyHeldWhileRunning ==
    [][(KeyL /\ currentView = ViewLogs /\ running) => currentView' = ViewLogs]_vars


\* Esc signals the token of the execution in flight and stays on Logs.
EscCancels ==
    /\ KeyEsc
    /\ cancelled'
    /\ currentView' = ViewLogs
    /\ ~quit'

\* C27 (as claimed): Esc pressed on Logs while a command runs signals the
\* cancellation token and leaves the session on Logs, without quitting.
C27_EscCancelsOnLogs ==
    (~quit /\ currentView = ViewLogs /\ running) => ENABLED EscCancels


\* C28: the quit key pressed while running is true changes nothing of the
\* session, on whatever view; pressed while running is false it quits.
C28_QuitDisabledWhileRunning ==
    /\ [][KeyQ =>
            IF running
              THEN UNCHANGED << session, build, runner, validation, pom,
                                historyIndex >>
              ELSE quit']_vars
    /\ []((~quit /\ ~running) => ENABLED (KeyQ /\ quit'))

\* C28 witness: a command runs and the session, not on the main view, has
\* not quit: the quit key has left it there.
C28_Witness ==
    /\ running
    /\ ~quit
    /\ inflight # << >>
    /\ currentView = ViewHistory


\* Enter re-executes the command of the entry under the cursor, the
\* historyIndex-th most recent one, and moves to Logs with running true.
RerunsEntryAtCursor ==
    /\ HistoryEnter
    /\ currentView' = ViewLogs
    /\ running'
    /\ Len(inflight') = Len(inflight) + 1
    /\ SubSeq(inflight', 1, Len(inflight)) = inflight
    /\ inflight'[Len(inflight')].cmd = history[Len(history) - historyIndex].Command
    /\ inflight'[Len(inflight')].cmd = HistoryItems(history)[historyIndex + 1].Command
    /\ history' = history

\* C29: Enter on the history view with the cursor on row i of the list
\* (newest first) re-executes the command of history[len-1-i], unchanged,
\* and moves to Logs with running true; with an empty history it changes
\* nothing.
C29_RerunFromHistory ==
    /\ [][HistoryEnter =>
            IF history = << >>
              THEN UNCHANGED << currentView, running, inflight, history >>
              ELSE RerunsEntryAtCursor]_vars
    /\ []((currentView = ViewHistory /\ history # << >> /\ Len(inflight) < MaxInFlight)
            => ENABLED RerunsEntryAtCursor)

\* C29 witness: with three entries in the history and the cursor moved off
\* the first row, the oldest entry has been re-executed.
C29_Witness ==
    /\ Len(history) = MaxEntries
    /\ historyIndex = MaxEntries - 1
    /\ currentView = ViewLogs
    /\ running
    /\ Len(inflight) = 1
    /\ inflight[1].cmd = history[1].Command


\* The completion of an execution whose process could not be started has
\* just been processed: the result carries the error, with the exit code
\* left at 0, it is the last history entry, one execution less is in
\* flight, running is false and the session has not quit.
SpawnFailureProcessed ==
    /\ ~lastComplete'.none
    /\ lastComplete'.result.Error
    /\ Len(inflight') = Len(inflight) - 1
    /\ Len(history') = Len(history) + 1
    /\ history'[Len(history')] = lastComplete'.result
    /\ ~running'
    /\ ~quit'

\* C30: when the process of a streamed command cannot be spawned, one
\* completion event carrying the error is delivered for it, and processing
\* it leaves running false, the result as the last history entry and the
\* session alive.
C30_SpawnFailureCompletes ==
    /\ [][(~lastComplete'.none /\ lastComplete'.result.Error)
            => SpawnFailureProcessed]_vars
    /\ []((~quit /\ inflight # << >> /\ inflight[1].stage = "running")
            => ENABLED (/\ ExecutionComplete(1, [ExitCode |-> 0, Error |-> TRUE],
                                             FALSE, FALSE)
                        /\ SpawnFailureProcessed))

\* C30 witness: the Package task could not be spawned; its completion has
\* been processed on the Logs view.
C30_Witness ==
    /\ ~lastComplete.none
    /\ lastComplete.result.Error
    /\ lastComplete.result.ExitCode = 0
    /\ lastComplete.result.Command.arg = "Package"
    /\ history[Len(history)] = lastComplete.result
    /\ ~running
    /\ ~quit


\* C31 (as claimed): a completion whose result carries an error of the
\* execution machinery applies no pending side effect, neither the module
\* registration nor the new-project finalization.
C31_NoSideEffectOnMachineryError ==
    (~lastComplete.none /\ lastComplete.result.Error) =>
        lastComplete.effect = "none"


\* Only the lines of one stream, in the order the buffer holds them.
OfStream(output, s) ==
    SelectSeq(output, LAMBDA l : \E i \in DOMAIN streams[s].lines : streams[s].lines[i] = l)

\* C33 (as claimed): when the child has written to both streams and both
\* drains have read every line up to end of file, the shared buffer holds
\* every line of either stream exactly once, the lines of each stream in
\* the order they were written.
C33_EveryLineOnce ==
    (/\ \A s \in Streams :
           /\ streams[s].lines # << >>
           /\ streams[s].written = Len(streams[s].lines)
           /\ streams[s].pipe = << >>
           /\ streams[s].pc = "done")
        => /\ Len(execOutput) = Len(streams["stdout"].lines) + Len(streams["stderr"].lines)
           /\ \A s \in Streams : OfStream(execOutput, s) = streams[s].lines


\* C32: for a process that was spawned and exited on its own with a
\* non-zero code, the result Execute returns has that code as ExitCode and
\* no Error; a result with Error set is one of a process that was never
\* spawned or of a wait that failed for another reason than the exit code.
C32_NonZeroExitIsNoError ==
    execPc = "returned" =>
        /\ (child = "exited" /\ childExit # 0) =>
              (execReturn.ExitCode = childExit /\ ~execReturn.Error)
        /\ execReturn.Error =>
              \/ child = "unborn"
              \/ child = "exited" /\ childExit = 0 /\ ctxDone

\* C32 witness: a child that was spawned and exited on its own with code 1,
\* and Execute has returned: exit code 1, no error.
C32_Witness ==
    /\ execPc = "returned"
    /\ child = "exited"
    /\ childExit = 1
    /\ execReturn.ExitCode = 1
    /\ ~execReturn.Error


\* C34 (as claimed): running is true in every state in which an execution
\* that was begun has not yet had its completion event processed.
C34_RunningWhileInFlight ==
    inflight # << >> => running


\* The character keys that Update handles itself.
CharacterKey ==
    \/ KeyQ \/ KeyP \/ KeyL \/ KeyH \/ KeyM \/ KeyD \/ KeyR
    \/ Key1 \/ Key2 \/ Key3

\* C35 (as claimed): while a wizard screen is shown, a character key (a
\* digit, p, q, l, h, m, d, r) changes nothing but the sub-state of that
\* wizard: the build options, the screen and the quit flag stay as they are.
C35_WizardKeepsCharacterKeys ==
    [][(/\ currentView \in {ViewProjectCreation, ViewModuleCreation,
                            ViewDependencyManager}
        /\ CharacterKey)
          => /\ options' = options
             /\ currentView' = currentView
             /\ quit' = quit]_vars


\* Enter on the dependency wizard begins nothing.
DependencyEnterBeginsNothing ==
    UNCHANGED << running, cancelFunc, cancelled, history, inflight, pending,
                 options, quit >>

\* Enter with the sentinel selected in the curated list: custom mode, same
\* screen.
DependencyEnterCustom ==
    /\ KeyEnter
    /\ DependencyEnterBeginsNothing
    /\ dependencyManager.mode # "custom"
    /\ dependencyManager' = [dependencyManager EXCEPT !.mode = "custom"]
    /\ currentView' = ViewDependencyManager

\* Enter otherwise: the snippet is shown on Logs.
DependencyEnterSnippet ==
    /\ KeyEnter
    /\ DependencyEnterBeginsNothing
    /\ dependencyManager' = dependencyManager
    /\ currentView' = ViewLogs

OnDependencyWizard ==
    ~quit /\ currentView = ViewDependencyManager /\ ~dependencyManager.nil

\* C36: Enter on the dependency wizard never begins an execution (running,
\* the cancel handle, the history and the executions in flight stay as they
\* are); in the curated list it can switch to custom mode and stay on the
\* wizard (the sentinel) or move to Logs (any other entry), in custom mode
\* it moves to Logs, and every Enter step taken there is one of the two.
C36_DependencyEnterRunsNothing ==
    /\ []((OnDependencyWizard /\ dependencyManager.mode # "custom")
             => ENABLED DependencyEnterCustom)
    /\ [](OnDependencyWizard => ENABLED DependencyEnterSnippet)
    /\ []((OnDependencyWizard /\ dependencyManager.mode = "custom")
             => ~ENABLED DependencyEnterCustom)
    /\ [][(OnDependencyWizard /\ KeyEnter)
             => (DependencyEnterCustom \/ DependencyEnterSnippet)]_vars

\* C36 witness: Enter on the sentinel has switched the wizard to custom
\* mode; the wizard is still shown, nothing runs, nothing was begun.
C36_Witness ==
    /\ currentView = ViewDependencyManager
    /\ ~dependencyManager.nil
    /\ dependencyManager.mode = "custom"
    /\ ~running
    /\ inflight = << >>
    /\ history = << >>


\* The key "m" opens the module wizard with the state NewModuleCreation
\* returns, the key "d" the dependency wizard with that of
\* NewDependencyManager.
EntersModuleWizard ==
    /\ KeyM
    /\ currentView' = ViewModuleCreation
    /\ moduleCreation' = NewModuleCreation

EntersDependencyWizard ==
    /\ KeyD
    /\ currentView' = ViewDependencyManager
    /\ dependencyManager' = NewDependencyManager

OnMainWithProject == ~quit /\ currentView = ViewMain /\ ~startedWithoutProject

\* C37: a session started without a project never shows the module wizard
\* or the dependency wizard; in a session with a project the keys "m" and
\* "d" pressed on Main always open their wizard, with a newly created
\* sub-state that holds nothing of an earlier visit.
C37_WizardsNeedProject ==
    /\ [](startedWithoutProject =>
             currentView \notin {ViewModuleCreation, ViewDependencyManager})
    /\ [](OnMainWithProject =>
             (ENABLED EntersModuleWizard /\ ENABLED EntersDependencyWizard))
    /\ [][(OnMainWithProject /\ KeyM) => EntersModuleWizard]_vars
    /\ [][(OnMainWithProject /\ KeyD) => EntersDependencyWizard]_vars

\* C37 witness: the module wizard is open with empty fields in a session
\* whose history holds the create-module command of an earlier visit.
C37_Witness ==
    /\ ~startedWithoutProject
    /\ currentView = ViewModuleCreation
    /\ moduleCreation = NewModuleCreation
    /\ \E i \in DOMAIN history : history[i].Command.kind = "createModule"


\* The options with exactly one boolean flipped.
Flipped(field) ==
    /\ options'[field] = ~options[field]
    /\ \A f \in DOMAIN options \ {field} : options'[f] = options[f]

C39_PaneCycle ==
    /\ [](focusedPane \in {0, 1, 2})
    /\ [](~quit => /\ ENABLED (KeyTab /\ focusedPane' = (focusedPane + 1) % 3)
                   /\ ENABLED (KeyShiftTab /\ focusedPane' = (focusedPane + 2) % 3))
    /\ [][KeyTab => /\ focusedPane' = (focusedPane + 1) % 3
                    /\ currentView' = currentView]_vars
    /\ [][KeyShiftTab => /\ focusedPane' = (focusedPane + 2) % 3
                         /\ currentView' = currentView]_vars
    /\ [](/\ PrevPane(NextPane(focusedPane)) = focusedPane
          /\ NextPane(PrevPane(focusedPane)) = focusedPane
          /\ NextPane(NextPane(NextPane(focusedPane))) = focusedPane)

\* C39 witness: the focus has gone round to the first pane, by Shift+Tab
\* or by two Tabs, with the module wizard shown, and the wizard is still shown.
C39_Witness ==
    /\ focusedPane = 0
    /\ currentView = ViewModuleCreation


\* The quick-run key begins the interactive execution of the given task
\* and shows Logs.
QuickRunBegins(task) ==
    /\ KeyR
    /\ currentView' = ViewLogs
    /\ inflight' = Append(inflight, Execution(TaskCommand(task), TRUE))
    /\ history' = history

\* The quick-run key changes the execution state or the screen.
QuickRunActs ==
    /\ KeyR
    /\ \/ running' # running
       \/ inflight' # inflight
       \/ history' # history
       \/ currentView' # currentView

\* The tasks of the list whose goals start the application.
StartsApplication ==
    { i \in DOMAIN tasks :
        \E k \in DOMAIN tasks[i].Goals :
           tasks[i].Goals[k] \in {"exec:java", "tomcat7:run", "spring-boot:run"} }

\* C40: the run tasks are the tasks that start the application; on Main,
\* the quick-run key begins the first task of the list that is a run task
\* (Run (Java) on a jar project, Run (Tomcat) on a war project): the step is possible and every quick-run step there is that
\* step; when the list has no run task the key begins nothing: running,
\* the executions in flight, the history and the screen stay as they are.
C40_QuickRunFirstRunTask ==
    /\ [](StartsApplication = RunTasks)
    /\ []((~quit /\ currentView = ViewMain /\ RunTasks # {} /\ CanBegin) =>
             \E i \in RunTasks :
                /\ \A j \in RunTasks : i <= j
                /\ ENABLED QuickRunBegins(tasks[i]))
    /\ [][(currentView = ViewMain /\ RunTasks # {} /\ KeyR) =>
             \E i \in RunTasks :
                /\ \A j \in RunTasks : i <= j
                /\ QuickRunBegins(tasks[i])]_vars
    /\ []((currentView = ViewMain /\ RunTasks = {}) => ~ENABLED QuickRunActs)
    /\ [][(currentView = ViewMain /\ RunTasks = {} /\ KeyR) =>
             UNCHANGED << running, inflight, history, currentView >>]_vars

\* C40 witness: on a jar project the quick-run key has begun Run (Java),
\* the first of the two run tasks, as an interactive execution.
C40_Witness ==
    /\ packaging = "jar"
    /\ currentView = ViewLogs
    /\ Len(inflight) = 1
    /\ inflight[1].interactive
    /\ inflight[1].cmd.arg = "Run (Java)"

============================================================================
